---- MODULE Spec2Model ----
(***************************************************************************)
(* Model of the Solana memecoin tracker: the performance analyzer          *)
(* (src/unnamed/part_001, required by main.js as ./src/analyzers/          *)
(* performance), the batch analysis loop of main.js and the weekly         *)
(* aggregation of src/src/reporters/weekly-report.js.                      *)
(*                                                                         *)
(* JavaScript numbers are modelled as exact rationals in lowest terms,     *)
(* together with the two non-numbers the code can meet on these paths:     *)
(* undefined (a missing field) and NaN.                                    *)
(***************************************************************************)
EXTENDS Integers, Sequences, FiniteSets, TLC

VARIABLES
    current,      \* SpecScore: the token record handed to analyzeTokenPerformance
    outcome,      \* SpecScore: what analyzeTokenPerformance did with it
    summary,      \* SpecScore: what generatePerformanceSummary made of the analysis
    tokens,       \* SpecBatch: the batch handed to analyzeTokens
    idx,          \* SpecBatch: position of the for-loop of analyzeTokens
    analyses,     \* SpecBatch: the local array `analyses`
    pc,           \* SpecBatch: "collect" | "loop" | "done" | "failed"
    result,       \* SpecBatch: the array analyzeTokens resolves with
    weeklyData,   \* SpecWeekly: the snapshots loadHistoricalData returned
    aggregated,   \* SpecWeekly: result of aggregateWeeklyTokenData
    survival,     \* SpecWeekly: result of analyzeSurvivalRates
    newLaunchAnalysis, \* SpecWeekly: result of analyzeNewLaunches
    marketCapGrowthLeaders, \* SpecWeekly: result of getMarketCapGrowthLeaders
    wpc,          \* SpecWeekly: "load" | "report"
    historicalData, \* SpecHistory: the snapshots loadHistoricalData returned
    request,      \* SpecHistory: the database query made, with its arguments
    reply,        \* SpecHistory: what the query resolved with
    today,        \* SpecDb: the calendar day of the clock
    tokensFile,   \* SpecDb: the file of the current tokens, <<>> while missing
    historicalDir, \* SpecDb: the file tokens-<day>.json of each day, <<>> while missing
    saves,        \* SpecDb: history of the saveTokenData calls made
    loaded,       \* SpecDb: the last load made and what it returned
    cleaned,      \* SpecClean: the cleanOldData calls made and what the last one returned
    api,          \* SpecRequest: the client whose makeRequest runs
    maxRetries,   \* SpecRequest: this.maxRetries
    retryCount,   \* SpecRequest: the parameter retryCount of the running call
    attempts,     \* SpecRequest: number of client.get calls made
    waits,        \* SpecRequest: the waitTime of every sleep so far
    settled,      \* SpecRequest: what the outermost call resolved or rejected with
    rpc,          \* SpecRequest: "try" | "sleep" | "returned" | "thrown"
    clock,        \* SpecLimiter: Date.now(), in units of time
    intervalMs,   \* SpecLimiter: this.intervalMs of the RateLimiter
    lastCall,     \* SpecLimiter: this.lastCall
    waiting,      \* SpecLimiter: where each caller's wait() is, and when its timer is due
    completed,    \* SpecLimiter: the instants at which wait() calls completed, in order
    latest,       \* SpecSustain: the record handed to calculateSustainability
    historical,   \* SpecSustain: the asset's history handed with it
    sustainability, \* SpecSustain: what calculateSustainability returned
    portfolioFile, \* SpecPortfolio: the watchlist stored in portfolio.json
    invoked,      \* SpecPortfolio: the last PortfolioTracker call, its arguments and result
    values,       \* SpecStats: the sequence handed to the consistency helpers
    stats         \* SpecStats: what the helpers returned

vars == <<current, outcome, summary, tokens, idx, analyses, pc, result,
          weeklyData, aggregated, survival, newLaunchAnalysis, marketCapGrowthLeaders, wpc,
          historicalData, request, reply,
          today, tokensFile, historicalDir, saves, loaded, cleaned,
          api, maxRetries, retryCount, attempts, waits, settled, rpc,
          clock, intervalMs, lastCall, waiting, completed,
          latest, historical, sustainability, portfolioFile, invoked, values, stats>>

scoreVars  == <<current, outcome, summary>>
batchVars  == <<tokens, idx, analyses, pc, result>>
weeklyVars == <<weeklyData, aggregated, survival, newLaunchAnalysis, marketCapGrowthLeaders, wpc>>
statsVars  == <<values, stats>>
historyVars == <<historicalData, request, reply>>
dbVars == <<today, tokensFile, historicalDir, saves, loaded, cleaned>>
requestVars == <<api, maxRetries, retryCount, attempts, waits, settled, rpc>>
limiterVars == <<clock, intervalMs, lastCall, waiting, completed>>
sustainVars == <<latest, historical, sustainability>>
portfolioVars == <<portfolioFile, invoked>>

\* what an action of one part leaves alone: the variables of the other parts
exceptScore     == <<batchVars, weeklyVars, statsVars, historyVars, dbVars,
                     requestVars, limiterVars, sustainVars, portfolioVars>>
exceptBatch     == <<scoreVars, weeklyVars, statsVars, historyVars, dbVars,
                     requestVars, limiterVars, sustainVars, portfolioVars>>
exceptWeekly    == <<scoreVars, batchVars, statsVars, historyVars, dbVars,
                     requestVars, limiterVars, sustainVars, portfolioVars>>
exceptStats     == <<scoreVars, batchVars, weeklyVars, historyVars, dbVars,
                     requestVars, limiterVars, sustainVars, portfolioVars>>
exceptHistory   == <<scoreVars, batchVars, weeklyVars, statsVars, dbVars,
                     requestVars, limiterVars, sustainVars, portfolioVars>>
exceptDb        == <<scoreVars, batchVars, weeklyVars, statsVars, historyVars,
                     requestVars, limiterVars, sustainVars, portfolioVars>>
exceptRequest   == <<scoreVars, batchVars, weeklyVars, statsVars, historyVars,
                     dbVars, limiterVars, sustainVars, portfolioVars>>
exceptLimiter   == <<scoreVars, batchVars, weeklyVars, statsVars, historyVars,
                     dbVars, requestVars, sustainVars, portfolioVars>>
exceptSustain   == <<scoreVars, batchVars, weeklyVars, statsVars, historyVars,
                     dbVars, requestVars, limiterVars, portfolioVars>>
exceptPortfolio == <<scoreVars, batchVars, weeklyVars, statsVars, historyVars,
                     dbVars, requestVars, limiterVars, sustainVars>>

(***************************************************************************)
(* Bounds of the model.                                                    *)
(***************************************************************************)
MaxTx    == 3    \* buys24h and sells24h range over 0..MaxTx
MaxBatch == 3    \* longest batch handed to analyzeTokens
MaxDays  == 3    \* most snapshots in a queried range
MaxLen   == 4    \* longest sequence handed to the consistency helpers
MaxRepeatDays == 2    \* most snapshots in a range whose report is prepared twice
MaxSaves == 3    \* most saveTokenData calls in a run
DbDays   == 3    \* calendar days the clock passes through
MaxRetries == 4  \* largest configured maxRetries
MaxVal   == 4    \* largest value in such a sequence
MaxClock == 7    \* last instant of the clock a RateLimiter is watched until
MaxWaits == 3    \* most wait() calls made on one RateLimiter
MaxHist  == 3    \* longest history handed to calculateSustainability
MaxCleans == 2   \* most cleanOldData calls in a run
MaxAuto  == 2    \* longest batch handed to autoAddPromisingTokens

(***************************************************************************)
(* JavaScript values: a number n/d (d > 0, lowest terms), NaN, undefined.  *)
(***************************************************************************)
Abs(x) == IF x < 0 THEN -x ELSE x

RECURSIVE GCD(_, _)
GCD(a, b) == IF b = 0 THEN a ELSE GCD(b, a % b)

Rat(n, d) ==
    LET s == IF d < 0 THEN -1 ELSE 1
        g == GCD(Abs(n), Abs(d))
    IN  [t |-> "num", n |-> (s * n) \div g, d |-> Abs(d) \div g]

Num(i)    == [t |-> "num", n |-> i, d |-> 1]
Undef     == [t |-> "undef", n |-> 0, d |-> 1]
NaN       == [t |-> "nan", n |-> 0, d |-> 1]
Infinity  == [t |-> "inf", n |-> 1, d |-> 1]

IsNum(x)  == x.t = "num"
\* JavaScript truthiness of a number-or-undefined: 0, NaN and undefined are falsy
Truthy(x) == IsNum(x) /\ x.n # 0
\* x || y
JsOr(x, y) == IF Truthy(x) THEN x ELSE y

\* relational operators: false as soon as an operand is NaN or undefined
JsGt(a, b) == IsNum(a) /\ IsNum(b) /\ a.n * b.d > b.n * a.d
JsLt(a, b) == IsNum(a) /\ IsNum(b) /\ a.n * b.d < b.n * a.d
JsLe(a, b) == IsNum(a) /\ IsNum(b) /\ a.n * b.d <= b.n * a.d
JsGe(a, b) == IsNum(a) /\ IsNum(b) /\ a.n * b.d >= b.n * a.d

\* arithmetic: NaN as soon as an operand is NaN or undefined.  Every division
\* on the modelled paths is guarded by the code against a zero divisor.
JsAdd(a, b) == IF IsNum(a) /\ IsNum(b) THEN Rat(a.n * b.d + b.n * a.d, a.d * b.d) ELSE NaN
JsSub(a, b) == IF IsNum(a) /\ IsNum(b) THEN Rat(a.n * b.d - b.n * a.d, a.d * b.d) ELSE NaN
JsMul(a, b) == IF IsNum(a) /\ IsNum(b) THEN Rat(a.n * b.n, a.d * b.d) ELSE NaN
JsDiv(a, b) == IF IsNum(a) /\ IsNum(b) /\ b.n # 0 THEN Rat(a.n * b.d, a.d * b.n) ELSE NaN

\* Math.min / Math.max of two arguments
MathMin(a, b) == IF IsNum(a) /\ IsNum(b) THEN (IF JsLt(b, a) THEN b ELSE a) ELSE NaN
MathMax(a, b) == IF IsNum(a) /\ IsNum(b) THEN (IF JsGt(b, a) THEN b ELSE a) ELSE NaN

(***************************************************************************)
(* Token records.  A record carries the fields the modelled code reads;    *)
(* an absent address or symbol is "", an absent number is Undef.           *)
(***************************************************************************)
BaseToken ==
    [address |-> "", symbol |-> "T", price |-> Num(1),
     priceChange24h |-> Num(0), volume24h |-> Num(0), marketCap |-> Num(0),
     liquidity |-> Num(0), buys24h |-> Num(0), sells24h |-> Num(0),
     \* enrichTokenWithLaunchData: false and null for an asset not from the launchpad
     isFromLetsBonk |-> FALSE, daysSinceLaunch |-> Undef]

\* token.address || token.symbol
CanonicalKey(token) == IF token.address # "" THEN token.address ELSE token.symbol

(***************************************************************************)
(* PerformanceAnalyzer                                                     *)
(***************************************************************************)
assessLiquidityHealth(liquidity, marketCap) ==
    IF ~Truthy(liquidity) \/ ~Truthy(marketCap) THEN "unknown"
    ELSE LET ratio == JsMul(JsDiv(liquidity, marketCap), Num(100))
         IN  IF JsGt(ratio, Num(10)) THEN "healthy"
             ELSE IF JsGt(ratio, Num(5)) THEN "moderate"
             ELSE IF JsGt(ratio, Num(1)) THEN "low"
             ELSE "poor"

calculateBuyToSellRatio(buys, sells) ==
    IF ~Truthy(sells) THEN (IF JsGt(buys, Num(0)) THEN Num(10) ELSE Num(1))
    ELSE JsDiv(buys, sells)

\* current.marketCap > 0 ? (current.volume24h / current.marketCap) * 100 : 0
volumeToMcapRatio(cur) ==
    IF JsGt(cur.marketCap, Num(0))
    THEN JsMul(JsDiv(cur.volume24h, cur.marketCap), Num(100))
    ELSE Num(0)

\* the sub-metrics of calculatePerformanceMetrics that the score reads
calculatePerformanceMetrics(cur) ==
    [change24h         |-> JsOr(cur.priceChange24h, Num(0)),
     volumeToMcapRatio |-> volumeToMcapRatio(cur),
     liquidityHealth   |-> assessLiquidityHealth(cur.liquidity, cur.marketCap),
     buyToSellRatio    |-> calculateBuyToSellRatio(cur.buys24h, cur.sells24h)]

\* formatNumber and formatPercentage end in num.toFixed(2): a TypeError when
\* num is undefined
toFixedThrows(num) == num.t = "undef"

\* the four checks chained with else-if: only the first matching alert is pushed
checkForAlerts_firstOnly(cur) ==
    LET breakout == JsGt(JsOr(cur.priceChange24h, Num(0)), Num(100))
        dump     == JsLt(JsOr(cur.priceChange24h, Num(0)), Num(-50))
        spike    == JsGt(volumeToMcapRatio(cur), Num(50))
        lowLiq   == /\ JsLt(JsOr(cur.liquidity, Num(0)), Num(5000))
                    /\ JsGt(JsOr(cur.marketCap, Num(0)), Num(100000))
    IN  [threw  |-> ~breakout /\ ~dump /\ ~spike /\ lowLiq /\ toFixedThrows(cur.liquidity),
         alerts |-> IF breakout THEN <<"price_breakout">>
                    ELSE IF dump THEN <<"price_dump">>
                    ELSE IF spike THEN <<"volume_spike">>
                    ELSE IF lowLiq THEN <<"low_liquidity">>
                    ELSE <<>>]

\* checkForAlerts: the alert types pushed, in order, and whether building one
\* of the messages threw
checkForAlerts(cur) ==
    LET breakout == JsGt(JsOr(cur.priceChange24h, Num(0)), Num(100))
        dump     == JsLt(JsOr(cur.priceChange24h, Num(0)), Num(-50))
        spike    == JsGt(volumeToMcapRatio(cur), Num(50))
        lowLiq   == /\ JsLt(JsOr(cur.liquidity, Num(0)), Num(5000))
                    /\ JsGt(JsOr(cur.marketCap, Num(0)), Num(100000))
    IN  [threw  |-> \/ (breakout /\ toFixedThrows(cur.priceChange24h))
                    \/ (dump /\ toFixedThrows(cur.priceChange24h))
                    \/ (spike /\ toFixedThrows(volumeToMcapRatio(cur)))
                    \/ (lowLiq /\ toFixedThrows(cur.liquidity)),
         alerts |-> (IF breakout THEN <<"price_breakout">> ELSE <<>>)
                    \o (IF dump THEN <<"price_dump">> ELSE <<>>)
                    \o (IF spike THEN <<"volume_spike">> ELSE <<>>)
                    \o (IF lowLiq THEN <<"low_liquidity">> ELSE <<>>)]

categorizeMomentum(change) ==
    IF JsGt(change, Num(50)) THEN "very_bullish"
    ELSE IF JsGt(change, Num(20)) THEN "bullish"
    ELSE IF JsGt(change, Num(5)) THEN "slightly_bullish"
    ELSE IF JsGt(change, Num(-5)) THEN "neutral"
    ELSE IF JsGt(change, Num(-20)) THEN "slightly_bearish"
    ELSE IF JsGt(change, Num(-50)) THEN "bearish"
    ELSE "very_bearish"

categorizeVolume(volume, marketCap) ==
    IF ~Truthy(marketCap) THEN "unknown"
    ELSE LET ratio == JsMul(JsDiv(volume, marketCap), Num(100))
         IN  IF JsGt(ratio, Num(100)) THEN "extremely_high"
             ELSE IF JsGt(ratio, Num(50)) THEN "very_high"
             ELSE IF JsGt(ratio, Num(20)) THEN "high"
             ELSE IF JsGt(ratio, Num(5)) THEN "moderate"
             ELSE IF JsGt(ratio, Num(1)) THEN "low"
             ELSE "very_low"

getMomentumScore(momentum) ==
    CASE momentum = "very_bullish"     -> Num(1)
      [] momentum = "bullish"          -> Rat(7, 10)
      [] momentum = "slightly_bullish" -> Rat(3, 10)
      [] momentum = "neutral"          -> Num(0)
      [] momentum = "slightly_bearish" -> Rat(-3, 10)
      [] momentum = "bearish"          -> Rat(-7, 10)
      [] momentum = "very_bearish"     -> Num(-1)
      [] momentum = "extremely_high"   -> Num(1)
      [] momentum = "very_high"        -> Rat(8, 10)
      [] momentum = "high"             -> Rat(6, 10)
      [] momentum = "moderate"         -> Rat(3, 10)
      [] momentum = "low"              -> Rat(-2, 10)
      [] momentum = "very_low"         -> Rat(-5, 10)
      [] OTHER                         -> Num(0)

\* calculateMomentum comparing the sum of the two scores, not their average
calculateMomentum_sumOfScores(cur) ==
    LET price    == categorizeMomentum(JsOr(cur.priceChange24h, Num(0)))
        volume   == categorizeVolume(JsOr(cur.volume24h, Num(0)), JsOr(cur.marketCap, Num(0)))
        sumScore == JsAdd(getMomentumScore(price), getMomentumScore(volume))
    IN  [price   |-> price,
         volume  |-> volume,
         overall |-> IF JsGt(sumScore, Rat(6, 10)) THEN "bullish"
                     ELSE IF JsLt(sumScore, Rat(-6, 10)) THEN "bearish"
                     ELSE "neutral"]

calculateMomentum(cur) ==
    LET price    == categorizeMomentum(JsOr(cur.priceChange24h, Num(0)))
        volume   == categorizeVolume(JsOr(cur.volume24h, Num(0)), JsOr(cur.marketCap, Num(0)))
        avgScore == JsDiv(JsAdd(getMomentumScore(price), getMomentumScore(volume)), Num(2))
    IN  [price   |-> price,
         volume  |-> volume,
         overall |-> IF JsGt(avgScore, Rat(6, 10)) THEN "bullish"
                     ELSE IF JsLt(avgScore, Rat(-6, 10)) THEN "bearish"
                     ELSE "neutral"]

\* the part of analyzeTrends that the recommendation reads
analyzeTrends(cur) == [momentum |-> calculateMomentum(cur)]

\* lines 237-252 of calculatePerformanceScore: the sum before the final clamp
scoreSum(performance) ==
    LET s0 == Num(50)
        priceChange24h == JsOr(performance.change24h, Num(0))
        s1 == JsAdd(s0, MathMin(MathMax(JsMul(priceChange24h, Rat(1, 2)), Num(-25)), Num(25)))
        volumeRatio == JsOr(performance.volumeToMcapRatio, Num(0))
        s2 == JsAdd(s1, MathMin(JsMul(volumeRatio, Rat(3, 10)), Num(15)))
        liquidityHealth == performance.liquidityHealth
        s3 == IF liquidityHealth = "healthy" THEN JsAdd(s2, Num(10))
              ELSE IF liquidityHealth = "moderate" THEN JsAdd(s2, Num(5))
              ELSE IF liquidityHealth = "poor" THEN JsSub(s2, Num(10))
              ELSE s2
        buyToSellRatio == JsOr(performance.buyToSellRatio, Num(1))
        s4 == IF JsGt(buyToSellRatio, Rat(12, 10)) THEN JsAdd(s3, Num(5))
              ELSE IF JsLt(buyToSellRatio, Rat(8, 10)) THEN JsSub(s3, Num(5))
              ELSE s3
    IN  s4

calculatePerformanceScore_noClamp(analysis) == scoreSum(analysis.performance)

calculatePerformanceScore(analysis) ==
    MathMax(Num(0), MathMin(Num(100), scoreSum(analysis.performance)))

\* analyzeTokenPerformance: the analysis, or a throw out of checkForAlerts
NoAnalysis == [kind |-> "none", analysis |-> <<>>]
Threw      == [kind |-> "threw", analysis |-> <<>>]
Returned(a) == [kind |-> "returned", analysis |-> <<a>>]

analyzeTokenPerformance(cur) ==
    LET al == checkForAlerts(cur)
        a0 == [current     |-> cur,
               performance |-> calculatePerformanceMetrics(cur),
               trends      |-> analyzeTrends(cur),
               alerts      |-> al.alerts,
               score       |-> Num(0),
               rank        |-> 0]
    IN  IF al.threw THEN Threw
        ELSE Returned([a0 EXCEPT !.score = calculatePerformanceScore(a0)])

generateRecommendation_ignoreAlerts(analysis) ==
    LET score == analysis.score
        alertCount == Len(analysis.alerts)
        momentum == analysis.trends.momentum.overall
    IN  IF JsGt(score, Num(80)) /\ momentum = "bullish" THEN "strong_buy"
        ELSE IF JsGt(score, Num(65)) /\ momentum # "bearish" THEN "buy"
        ELSE IF JsGt(score, Num(50)) /\ alertCount <= 1 THEN "hold"
        ELSE IF JsLt(score, Num(35)) \/ momentum = "bearish" THEN "sell"
        ELSE "watch"

\* generateRecommendation whose sell rule reads the score only
generateRecommendation_sellOnScoreOnly(analysis) ==
    LET score == analysis.score
        alertCount == Len(analysis.alerts)
        momentum == analysis.trends.momentum.overall
    IN  IF JsGt(score, Num(80)) /\ momentum = "bullish" /\ alertCount = 0 THEN "strong_buy"
        ELSE IF JsGt(score, Num(65)) /\ momentum # "bearish" THEN "buy"
        ELSE IF JsGt(score, Num(50)) /\ alertCount <= 1 THEN "hold"
        ELSE IF JsLt(score, Num(35)) THEN "sell"
        ELSE "watch"

generateRecommendation(analysis) ==
    LET score == analysis.score
        alertCount == Len(analysis.alerts)
        momentum == analysis.trends.momentum.overall
    IN  IF JsGt(score, Num(80)) /\ momentum = "bullish" /\ alertCount = 0 THEN "strong_buy"
        ELSE IF JsGt(score, Num(65)) /\ momentum # "bearish" THEN "buy"
        ELSE IF JsGt(score, Num(50)) /\ alertCount <= 1 THEN "hold"
        ELSE IF JsLt(score, Num(35)) \/ momentum = "bearish" THEN "sell"
        ELSE "watch"

\* the fields of generatePerformanceSummary that depend on the analysis
generatePerformanceSummary(analysis) ==
    [score          |-> analysis.score,
     rank           |-> analysis.rank,
     momentum       |-> analysis.trends.momentum.overall,
     alerts         |-> Len(analysis.alerts),
     recommendation |-> generateRecommendation(analysis)]

(***************************************************************************)
(* Idle values: what the variables of the other parts hold while one part  *)
(* of the program is explored.                                             *)
(***************************************************************************)
ScoreIdle  == current = BaseToken /\ outcome = NoAnalysis /\ summary = <<>>
BatchIdle  == tokens = <<>> /\ idx = 1 /\ analyses = <<>> /\ pc = "idle" /\ result = <<>>
WeeklyIdle == /\ weeklyData = <<>> /\ aggregated = <<>> /\ survival = <<>>
              /\ newLaunchAnalysis = <<>> /\ marketCapGrowthLeaders = <<>> /\ wpc = "idle"
StatsIdle  == values = <<>> /\ stats = <<>>
HistoryIdle == historicalData = <<>> /\ request = <<>> /\ reply = <<>>
RequestIdle == /\ api = "" /\ maxRetries = 0 /\ retryCount = 0 /\ attempts = 0
               /\ waits = <<>> /\ settled = <<>> /\ rpc = "idle"
DbIdle == /\ today = 0 /\ tokensFile = <<>> /\ historicalDir = <<>> /\ saves = <<>>
          /\ loaded = <<>> /\ cleaned = <<>>
LimiterIdle == /\ clock = 0 /\ intervalMs = 0 /\ lastCall = 0 /\ waiting = <<>>
               /\ completed = <<>>
SustainIdle == latest = BaseToken /\ historical = <<>> /\ sustainability = <<>>
PortfolioIdle == portfolioFile = <<>> /\ invoked = <<>>

IdleExceptScore     == /\ BatchIdle /\ WeeklyIdle /\ StatsIdle /\ HistoryIdle /\ DbIdle
                       /\ RequestIdle /\ LimiterIdle /\ SustainIdle /\ PortfolioIdle
IdleExceptBatch     == /\ ScoreIdle /\ WeeklyIdle /\ StatsIdle /\ HistoryIdle /\ DbIdle
                       /\ RequestIdle /\ LimiterIdle /\ SustainIdle /\ PortfolioIdle
IdleExceptWeekly    == /\ ScoreIdle /\ BatchIdle /\ StatsIdle /\ HistoryIdle /\ DbIdle
                       /\ RequestIdle /\ LimiterIdle /\ SustainIdle /\ PortfolioIdle
IdleExceptStats     == /\ ScoreIdle /\ BatchIdle /\ WeeklyIdle /\ HistoryIdle /\ DbIdle
                       /\ RequestIdle /\ LimiterIdle /\ SustainIdle /\ PortfolioIdle
IdleExceptHistory   == /\ ScoreIdle /\ BatchIdle /\ WeeklyIdle /\ StatsIdle /\ DbIdle
                       /\ RequestIdle /\ LimiterIdle /\ SustainIdle /\ PortfolioIdle
IdleExceptDb        == /\ ScoreIdle /\ BatchIdle /\ WeeklyIdle /\ StatsIdle /\ HistoryIdle
                       /\ RequestIdle /\ LimiterIdle /\ SustainIdle /\ PortfolioIdle
IdleExceptRequest   == /\ ScoreIdle /\ BatchIdle /\ WeeklyIdle /\ StatsIdle /\ HistoryIdle
                       /\ DbIdle /\ LimiterIdle /\ SustainIdle /\ PortfolioIdle
IdleExceptLimiter   == /\ ScoreIdle /\ BatchIdle /\ WeeklyIdle /\ StatsIdle /\ HistoryIdle
                       /\ DbIdle /\ RequestIdle /\ SustainIdle /\ PortfolioIdle
IdleExceptSustain   == /\ ScoreIdle /\ BatchIdle /\ WeeklyIdle /\ StatsIdle /\ HistoryIdle
                       /\ DbIdle /\ RequestIdle /\ LimiterIdle /\ PortfolioIdle
IdleExceptPortfolio == /\ ScoreIdle /\ BatchIdle /\ WeeklyIdle /\ StatsIdle /\ HistoryIdle
                       /\ DbIdle /\ RequestIdle /\ LimiterIdle /\ SustainIdle

(***************************************************************************)
(* SpecScore: analyzeTokenPerformance on one record.  Every numeric field  *)
(* may be missing; volumes and market caps may be negative.                *)
(***************************************************************************)
Opt(S) == {Undef} \cup {Num(i) : i \in S}

PriceChanges == {-120, -51, -50, -25, -10, 0, 10, 25, 50, 51, 120}
Volumes      == {-200000, 0, 1000, 4000, 10000, 60000, 200000}
MarketCaps   == {-100000, 0, 100000, 200000}
Liquidities  == {0, 1000, 7000, 30000}

ScoreTokens ==
    {[BaseToken EXCEPT !.priceChange24h = pc24, !.volume24h = vol, !.marketCap = mc,
                       !.liquidity = liq, !.buys24h = b, !.sells24h = s] :
        pc24 \in Opt(PriceChanges), vol \in Opt(Volumes), mc \in Opt(MarketCaps),
        liq \in Opt(Liquidities), b \in Opt(0..MaxTx), s \in Opt(0..MaxTx)}

InitScore ==
    /\ current \in ScoreTokens
    /\ outcome = NoAnalysis
    /\ summary = <<>>
    /\ IdleExceptScore

AnalyzeToken ==
    /\ outcome.kind = "none"
    /\ outcome' = analyzeTokenPerformance(current)
    /\ UNCHANGED <<current, summary, exceptScore>>

\* the reporters summarise an analysis once it exists
Summarize ==
    /\ outcome.kind = "returned"
    /\ summary = <<>>
    /\ summary' = <<generatePerformanceSummary(outcome.analysis[1])>>
    /\ UNCHANGED <<current, outcome, exceptScore>>

NextScore == AnalyzeToken \/ Summarize

SpecScore == InitScore /\ [][NextScore]_vars

\* C1: every analysis analyzeTokenPerformance produces carries a score that is
\* a number s with 0 <= s <= 100, whatever fields are negative, zero or missing.
ScoreInRange ==
    outcome.kind = "returned" =>
        LET s == outcome.analysis[1].score
        IN  IsNum(s) /\ JsGe(s, Num(0)) /\ JsLe(s, Num(100))

\* an analysis of a record with missing fields whose unclamped sum left [0,100]
ScoreClampedWitness ==
    /\ outcome.kind = "returned"
    /\ current.buys24h = Undef /\ current.priceChange24h = Undef
    /\ JsLt(scoreSum(outcome.analysis[1].performance), Num(0))
    /\ outcome.analysis[1].score = Num(0)

\* The score the specification states, from the record's own fields.
SpecClamp(x, lo, hi) == MathMax(lo, MathMin(hi, x))

SpecBuySellRatio(cur) ==
    IF ~Truthy(cur.sells24h) THEN (IF JsGt(cur.buys24h, Num(0)) THEN Num(10) ELSE Num(1))
    ELSE JsDiv(cur.buys24h, cur.sells24h)

SpecScoreOf(cur) ==
    LET health == assessLiquidityHealth(cur.liquidity, cur.marketCap)
        L == IF health = "healthy" THEN 10 ELSE IF health = "moderate" THEN 5
             ELSE IF health = "poor" THEN -10 ELSE 0
        ratio == SpecBuySellRatio(cur)
        B == IF JsGt(ratio, Rat(12, 10)) THEN 5
             ELSE IF JsLt(ratio, Rat(8, 10)) THEN -5 ELSE 0
        P == SpecClamp(JsMul(JsOr(cur.priceChange24h, Num(0)), Rat(1, 2)), Num(-25), Num(25))
        V == MathMin(JsMul(JsOr(volumeToMcapRatio(cur), Num(0)), Rat(3, 10)), Num(15))
    IN  SpecClamp(JsAdd(JsAdd(JsAdd(Num(50), P), V), Num(L + B)), Num(0), Num(100))

\* C8: for every record the score is clamp(50 + clamp(0.5*priceChange24h,-25,25)
\* + min(0.3*volumeToMcapRatio, 15) + L + B, 0, 100), B being -5 exactly when
\* buys/sells < 0.8, for every combination of buys and sells, buys = 0 included.
ScoreMatchesFormula ==
    outcome.kind = "returned" => outcome.analysis[1].score = SpecScoreOf(current)

\* C11: generateRecommendation applies its rules in order and the first match
\* wins: strong_buy iff score > 80, momentum bullish and no alert; else buy iff
\* score > 65 and momentum not bearish; else hold iff score > 50 and at most one
\* alert; else sell iff score < 35 or momentum bearish; else watch.  Exactly
\* one of the five labels is returned for every analysis.
RecommendationFollowsRuleOrder ==
    summary # <<>> =>
        LET a  == outcome.analysis[1]
            r  == summary[1].recommendation
            r1 == JsGt(a.score, Num(80)) /\ a.trends.momentum.overall = "bullish"
                  /\ Len(a.alerts) = 0
            r2 == JsGt(a.score, Num(65)) /\ a.trends.momentum.overall # "bearish"
            r3 == JsGt(a.score, Num(50)) /\ Len(a.alerts) <= 1
            r4 == JsLt(a.score, Num(35)) \/ a.trends.momentum.overall = "bearish"
        IN  /\ r \in {"strong_buy", "buy", "hold", "sell", "watch"}
            /\ (r = "strong_buy") <=> r1
            /\ (r = "buy")  <=> (~r1 /\ r2)
            /\ (r = "hold") <=> (~r1 /\ ~r2 /\ r3)
            /\ (r = "sell") <=> (~r1 /\ ~r2 /\ ~r3 /\ r4)
            /\ (r = "watch") <=> (~r1 /\ ~r2 /\ ~r3 /\ ~r4)

\* an analysis with score > 80 and bullish momentum that carries an alert: the
\* first rule does not match and the second one decides
FirstMatchWinsWitness ==
    /\ summary # <<>>
    /\ JsGt(outcome.analysis[1].score, Num(80))
    /\ outcome.analysis[1].trends.momentum.overall = "bullish"
    /\ Len(outcome.analysis[1].alerts) > 0
    /\ summary[1].recommendation = "buy"

\* what the four alert conditions are for a record, a missing field read as 0
BreakoutCondition(cur) == JsGt(JsOr(cur.priceChange24h, Num(0)), Num(100))
DumpCondition(cur)     == JsLt(JsOr(cur.priceChange24h, Num(0)), Num(-50))
SpikeCondition(cur) ==
    /\ JsGt(cur.marketCap, Num(0))
    /\ JsGt(JsMul(JsDiv(cur.volume24h, cur.marketCap), Num(100)), Num(50))
LowLiquidityCondition(cur) ==
    /\ JsLt(JsOr(cur.liquidity, Num(0)), Num(5000))
    /\ JsGt(JsOr(cur.marketCap, Num(0)), Num(100000))

Fires(alertType) ==
    /\ outcome.kind = "returned"
    /\ \E i \in 1..Len(outcome.analysis[1].alerts) : outcome.analysis[1].alerts[i] = alertType

EachAlertFiresOnItsCondition ==
    /\ Fires("price_breakout") <=> BreakoutCondition(current)
    /\ Fires("price_dump")     <=> DumpCondition(current)
    /\ Fires("volume_spike")   <=> SpikeCondition(current)
    /\ Fires("low_liquidity")  <=> LowLiquidityCondition(current)

\* C12 as stated: each of the four alerts fires iff its own condition holds,
\* whatever the other three do, and there is a record for which all four fire.
AlertsAreIndependent ==
    /\ outcome.kind # "none" => EachAlertFiresOnItsCondition
    /\ \E cur \in ScoreTokens :
          /\ ~checkForAlerts(cur).threw
          /\ Len(checkForAlerts(cur).alerts) = 4

\* C12, amended: checkForAlerts throws exactly when liquidity is missing while
\* marketCap > 100000; whenever it returns, each alert fires iff its own
\* condition holds, and price_breakout and price_dump never fire together, so a
\* record carries at most three alerts.
AlertsFireOnOwnCondition ==
    outcome.kind # "none" =>
        /\ outcome.kind = "threw" <=>
               (current.liquidity = Undef /\ JsGt(JsOr(current.marketCap, Num(0)), Num(100000)))
        /\ outcome.kind = "returned" =>
               /\ EachAlertFiresOnItsCondition
               /\ ~(Fires("price_breakout") /\ Fires("price_dump"))
               /\ Len(outcome.analysis[1].alerts) <= 3

\* price_dump, volume_spike and low_liquidity fire for one record
ThreeAlertsWitness ==
    /\ outcome.kind = "returned"
    /\ outcome.analysis[1].alerts = <<"price_dump", "volume_spike", "low_liquidity">>

\* C16: for a record with missing or zero numeric fields and an empty history
\* analyzeTokenPerformance returns without throwing, and the numeric metrics
\* it reports (volumeToMcapRatio, the score) are numbers, never NaN.
MissingDataNeverSurfaces ==
    /\ outcome.kind # "threw"
    /\ outcome.kind = "returned" =>
          /\ IsNum(outcome.analysis[1].performance.volumeToMcapRatio)
          /\ IsNum(outcome.analysis[1].score)

PriceBuckets ==
    {"very_bearish", "bearish", "slightly_bearish", "neutral", "slightly_bullish",
     "bullish", "very_bullish"}
VolumeBuckets == {"very_low", "low", "moderate", "high", "very_high", "extremely_high"}

InUnitBall(x) == JsGe(x, Num(-1)) /\ JsLe(x, Num(1))

\* C23: the price bucket is one of 7 labels, very_bearish iff change <= -50 and
\* very_bullish iff change > 50; the volume bucket is one of 6 labels, or
\* unknown with score 0 iff marketCap is 0; every bucket score lies in [-1,1];
\* overall is bullish iff the average of the two scores is > 0.6, bearish iff
\* it is < -0.6, neutral otherwise.
MomentumFollowsBuckets ==
    outcome.kind = "returned" =>
        LET m      == outcome.analysis[1].trends.momentum
            change == JsOr(current.priceChange24h, Num(0))
            mcap   == JsOr(current.marketCap, Num(0))
            ps     == getMomentumScore(m.price)
            vs     == getMomentumScore(m.volume)
            avg    == JsDiv(JsAdd(ps, vs), Num(2))
        IN  /\ m.price \in PriceBuckets
            /\ m.price = "very_bearish" <=> JsLe(change, Num(-50))
            /\ m.price = "very_bullish" <=> JsGt(change, Num(50))
            /\ m.volume \in VolumeBuckets \cup {"unknown"}
            /\ m.volume = "unknown" <=> mcap = Num(0)
            /\ m.volume = "unknown" => vs = Num(0)
            /\ \A b \in PriceBuckets \cup VolumeBuckets : InUnitBall(getMomentumScore(b))
            /\ InUnitBall(ps) /\ InUnitBall(vs)
            /\ m.overall = "bullish" <=> JsGt(avg, Rat(6, 10))
            /\ m.overall = "bearish" <=> JsLt(avg, Rat(-6, 10))
            /\ m.overall = "neutral" <=> (JsLe(avg, Rat(6, 10)) /\ JsGe(avg, Rat(-6, 10)))

\* a change of exactly -50 with a very low volume: the only pair of buckets
\* whose average is below -0.6
BearishAtBoundaryWitness ==
    /\ outcome.kind = "returned"
    /\ current.priceChange24h = Num(-50)
    /\ outcome.analysis[1].trends.momentum.price = "very_bearish"
    /\ outcome.analysis[1].trends.momentum.volume = "very_low"
    /\ outcome.analysis[1].trends.momentum.overall = "bearish"

\* C27: for every analysis analyzeTokenPerformance produces, an overall
\* momentum of bearish implies the recommendation sell, the score of a bearish
\* record being 50 or below.
BearishMeansSell ==
    summary # <<>> =>
        (outcome.analysis[1].trends.momentum.overall = "bearish" =>
            /\ summary[1].recommendation = "sell"
            /\ JsLe(outcome.analysis[1].score, Num(50)))

\* a bearish record whose score is not below 35: it is the momentum that
\* makes the recommendation sell
BearishSellWitness ==
    /\ summary # <<>>
    /\ outcome.analysis[1].trends.momentum.overall = "bearish"
    /\ JsGe(outcome.analysis[1].score, Num(35))
    /\ summary[1].recommendation = "sell"

(***************************************************************************)
(* SpecBatch: analyzeTokens (main.js) on a batch produced by               *)
(* deduplicateTokens, and rankTokens.                                      *)
(***************************************************************************)
RECURSIVE deduplicateFrom(_, _, _)
deduplicateFrom(toks, seen, unique) ==
    IF toks = <<>> THEN unique
    ELSE LET key == CanonicalKey(Head(toks))
         IN  IF key \in seen THEN deduplicateFrom(Tail(toks), seen, unique)
             ELSE deduplicateFrom(Tail(toks), seen \cup {key}, Append(unique, Head(toks)))

deduplicateTokens(toks) == deduplicateFrom(toks, {}, <<>>)

\* Array.prototype.sort with the comparator (a, b) => b.score - a.score.  The
\* sort is stable (ECMAScript 2019): an element goes behind every element
\* already placed that the comparator does not order after it.
RECURSIVE insertionPoint(_, _, _)
insertionPoint(sorted, a, i) ==
    IF i > Len(sorted) THEN i
    ELSE IF JsGt(a.score, sorted[i].score) THEN i
    ELSE insertionPoint(sorted, a, i + 1)

RECURSIVE unstableInsertionPoint(_, _, _)
unstableInsertionPoint(sorted, a, i) ==
    IF i > Len(sorted) THEN i
    ELSE IF JsGe(a.score, sorted[i].score) THEN i
    ELSE unstableInsertionPoint(sorted, a, i + 1)

RECURSIVE sortFrom(_, _)
sortFrom(rest, sorted) ==
    IF rest = <<>> THEN sorted
    ELSE LET a == Head(rest)
             k == insertionPoint(sorted, a, 1)
         IN  sortFrom(Tail(rest),
                      SubSeq(sorted, 1, k - 1) \o <<a>> \o SubSeq(sorted, k, Len(sorted)))

RECURSIVE unstableSortFrom(_, _)
unstableSortFrom(rest, sorted) ==
    IF rest = <<>> THEN sorted
    ELSE LET a == Head(rest)
             k == unstableInsertionPoint(sorted, a, 1)
         IN  unstableSortFrom(Tail(rest),
                      SubSeq(sorted, 1, k - 1) \o <<a>> \o SubSeq(sorted, k, Len(sorted)))

sortByScoreDesc(tokenAnalyses) == sortFrom(tokenAnalyses, <<>>)

rankTokens_zeroBased(tokenAnalyses) ==
    LET sorted == sortByScoreDesc(tokenAnalyses)
    IN  [index \in 1..Len(sorted) |-> [sorted[index] EXCEPT !.rank = index - 1]]

rankTokens_unstable(tokenAnalyses) ==
    LET sorted == unstableSortFrom(tokenAnalyses, <<>>)
    IN  [index \in 1..Len(sorted) |-> [sorted[index] EXCEPT !.rank = index]]

\* forEach index is 0-based, sequences here are 1-based: rank = position
rankTokens(tokenAnalyses) ==
    LET sorted == sortByScoreDesc(tokenAnalyses)
    IN  [index \in 1..Len(sorted) |-> [sorted[index] EXCEPT !.rank = index]]

BatchAddresses == {"A", "B", "C", "D"}

\* records with equal and with different scores, and a record whose analysis
\* throws (liquidity missing while marketCap > 100000)
BatchTokens ==
    {[BaseToken EXCEPT !.address = a, !.priceChange24h = Num(p)] :
        a \in BatchAddresses, p \in {0, 120}}
    \cup {[BaseToken EXCEPT !.address = a, !.liquidity = Num(30000), !.marketCap = Num(200000)] :
        a \in BatchAddresses}
    \cup {[BaseToken EXCEPT !.address = a, !.liquidity = Undef, !.marketCap = Num(200000)] :
        a \in BatchAddresses}

RECURSIVE SeqsUpTo(_, _)
SeqsUpTo(S, n) ==
    IF n = 0 THEN {<<>>}
    ELSE LET shorter == SeqsUpTo(S, n - 1)
         IN  shorter \cup {Append(q, x) : q \in {r \in shorter : Len(r) = n - 1}, x \in S}

InitBatch ==
    /\ \E raw \in SeqsUpTo(BatchTokens, MaxBatch) : tokens = deduplicateTokens(raw)
    /\ idx = 1
    /\ analyses = <<>>
    /\ pc = "loop"
    /\ result = <<>>
    /\ IdleExceptBatch

\* one iteration of the for-loop: getTokenHistory (which catches its own
\* errors), analyzeTokenPerformance, push
AnalyzeNext ==
    /\ pc = "loop" /\ idx <= Len(tokens)
    /\ LET r == analyzeTokenPerformance(tokens[idx])
       IN  /\ r.kind = "returned"
           /\ analyses' = Append(analyses, r.analysis[1])
           /\ idx' = idx + 1
    /\ UNCHANGED <<tokens, pc, result, exceptBatch>>

\* the iteration throws: the catch of analyzeTokens logs and rethrows
AnalyzeThrows ==
    /\ pc = "loop" /\ idx <= Len(tokens)
    /\ analyzeTokenPerformance(tokens[idx]).kind = "threw"
    /\ pc' = "failed"
    /\ UNCHANGED <<tokens, idx, analyses, result, exceptBatch>>

\* after the loop: rankTokens sorts `analyses` in place and returns it
RankBatch ==
    /\ pc = "loop" /\ idx > Len(tokens)
    /\ result' = rankTokens(analyses)
    /\ analyses' = result'
    /\ pc' = "done"
    /\ UNCHANGED <<tokens, idx, exceptBatch>>

NextBatch == AnalyzeNext \/ AnalyzeThrows \/ RankBatch

SpecBatch == InitBatch /\ [][NextBatch]_vars

Range(q) == {q[i] : i \in 1..Len(q)}

\* C2: after rankTokens the ranks of a batch of n analyses are exactly 1..n
\* without repeats, and a smaller rank never goes with a smaller score.
RanksArePermutation ==
    pc = "done" =>
        /\ Len(result) = Len(tokens)
        /\ {CanonicalKey(a.current) : a \in Range(result)}
             = {CanonicalKey(t) : t \in Range(tokens)}
        /\ {a.rank : a \in Range(result)} = 1..Len(result)
        /\ \A i, j \in 1..Len(result) : i # j => result[i].rank # result[j].rank
        /\ \A a, b \in Range(result) : a.rank < b.rank => JsGe(a.score, b.score)

\* a ranked batch whose best record came last in the input
RankedWitness ==
    /\ pc = "done" /\ Len(tokens) >= 3
    /\ \E a \in Range(result) :
          /\ a.rank = 1
          /\ a.current = tokens[Len(tokens)]
          /\ \E b \in Range(result) : JsGt(a.score, b.score)

ResultOf(token) ==
    CHOOSE a \in Range(result) : CanonicalKey(a.current) = CanonicalKey(token)

\* C10: rankTokens is stable: of two analyses with equal scores the one that
\* came earlier in the input gets the smaller rank.
RankingIsStable ==
    pc = "done" =>
        \A i, j \in 1..Len(tokens) :
            (i < j /\ ResultOf(tokens[i]).score = ResultOf(tokens[j]).score)
                => ResultOf(tokens[i]).rank < ResultOf(tokens[j]).rank

\* two records of equal score ranked around nothing but each other, after a
\* better record that came later in the input
StableTieWitness ==
    /\ pc = "done" /\ Len(tokens) >= 3
    /\ ResultOf(tokens[1]).score = ResultOf(tokens[2]).score
    /\ JsGt(ResultOf(tokens[3]).score, ResultOf(tokens[1]).score)
    /\ ResultOf(tokens[3]).rank = 1
    /\ ResultOf(tokens[1]).rank = 2 /\ ResultOf(tokens[2]).rank = 3

\* the analyses of the records of a batch whose analysis does not throw
RECURSIVE analysesOfHealthy(_)
analysesOfHealthy(toks) ==
    IF toks = <<>> THEN <<>>
    ELSE LET r == analyzeTokenPerformance(Head(toks))
         IN  (IF r.kind = "returned" THEN r.analysis ELSE <<>>)
             \o analysesOfHealthy(Tail(toks))

\* C3: a record whose analysis throws is left out and analyzeTokens still
\* returns the ranked analyses of all the other records of the batch.
BatchIsolatesFailure ==
    /\ pc # "failed"
    /\ pc = "done" => result = rankTokens(analysesOfHealthy(tokens))

(***************************************************************************)
(* SpecWeekly: WeeklyReportGenerator.prepareWeeklyData on the snapshots of *)
(* a date range.  A snapshot is what saveTokenData stored for a day: the   *)
(* output of deduplicateTokens.  An insertion-ordered Map or Set is a      *)
(* sequence without repeated keys.                                         *)
(***************************************************************************)
\* helpers.js calculatePercentageChange
calculatePercentageChange(cur, previous) ==
    IF ~Truthy(previous) THEN Num(0)
    ELSE JsMul(JsDiv(JsSub(cur, previous), previous), Num(100))

mapHas(map, key) == \E i \in 1..Len(map) : map[i].key = key
mapIndex(map, key) == CHOOSE i \in 1..Len(map) : map[i].key = key

\* tokenMap.set(key, {...token, dailyData: [], ...}) of a key not yet seen
newSeries(token, date) ==
    [key |-> CanonicalKey(token),
     address |-> token.address, symbol |-> token.symbol,
     price |-> token.price, marketCap |-> token.marketCap,
     isFromLetsBonk |-> token.isFromLetsBonk, daysSinceLaunch |-> token.daysSinceLaunch,
     dailyData |-> <<>>,
     firstSeen |-> date, lastSeen |-> date,
     daysActive |-> 0,
     maxMarketCap |-> JsOr(token.marketCap, Num(0)),
     minMarketCap |-> JsOr(token.marketCap, Num(0)),
     totalVolumeWeek |-> Num(0),
     weeklyGrowth |-> Num(0)]

\* the body of dayData.tokens.forEach once the series exists (lines 87-106)
updateSeries(existing, token, date) ==
    LET dailyData == Append(existing.dailyData,
                            [date |-> date, price |-> token.price,
                             volume24h |-> token.volume24h,
                             marketCap |-> token.marketCap])
        firstPrice == dailyData[1].price
        currentPrice == token.price
    IN  [existing EXCEPT
            !.dailyData = dailyData,
            !.lastSeen = date,
            !.daysActive = @ + 1,
            !.maxMarketCap = MathMax(@, JsOr(token.marketCap, Num(0))),
            \* Math.min(min, token.marketCap || Infinity): Infinity leaves min alone
            !.minMarketCap = IF Truthy(token.marketCap) THEN MathMin(@, token.marketCap) ELSE @,
            !.totalVolumeWeek = JsAdd(@, JsOr(token.volume24h, Num(0))),
            !.weeklyGrowth =
                IF Len(dailyData) > 1
                THEN (IF JsGt(firstPrice, Num(0))
                      THEN JsMul(JsDiv(JsSub(currentPrice, firstPrice), firstPrice), Num(100))
                      ELSE Num(0))
                ELSE @]

aggregateKey_symbolOnly(token) == token.symbol

\* const key = token.address || token.symbol
aggregateKey(token) == CanonicalKey(token)

aggregateToken(map, token, date) ==
    LET key == aggregateKey(token)
        m1  == IF mapHas(map, key) THEN map
               ELSE Append(map, [newSeries(token, date) EXCEPT !.key = key])
        i   == mapIndex(m1, key)
    IN  [m1 EXCEPT ![i] = updateSeries(m1[i], token, date)]

RECURSIVE aggregateDay(_, _, _)
aggregateDay(map, toks, date) ==
    IF toks = <<>> THEN map
    ELSE aggregateDay(aggregateToken(map, Head(toks), date), Tail(toks), date)

RECURSIVE aggregateDays(_, _)
aggregateDays(map, days) ==
    IF days = <<>> THEN map
    ELSE aggregateDays(aggregateDay(map, Head(days).tokens, Head(days).date), Tail(days))

\* the Map kept between calls: a call starts from the series of the call before
aggregateWeeklyTokenData_keptMap(data) == aggregateDays(aggregated, data)

\* const tokenMap = new Map() at every call; the series in Map insertion order
\* (Array.from(tokenMap.values()))
aggregateWeeklyTokenData(data) == aggregateDays(<<>>, data)

\* new Set(tokens.map(t => t.address || t.symbol)), in insertion order
RECURSIVE keySetFrom(_, _)
keySetFrom(toks, set) ==
    IF toks = <<>> THEN set
    ELSE LET key == CanonicalKey(Head(toks))
         IN  keySetFrom(Tail(toks),
                        IF \E i \in 1..Len(set) : set[i] = key THEN set ELSE Append(set, key))

keySet(toks) == keySetFrom(toks, <<>>)
setHas(set, key) == \E i \in 1..Len(set) : set[i] = key

NoSurvival == [defined |-> FALSE, startingTokens |-> 0, endingTokens |-> 0, survived |-> 0,
               dropped |-> 0, newEntrants |-> 0, survivalRate |-> Num(0)]

\* lines 205-218 of analyzeSurvivalRates, from the token lists of the two days
survivalOf(firstTokens, lastTokens) ==
    LET firstDayTokens == keySet(firstTokens)
        lastDayTokens  == keySet(lastTokens)
        \* Array.from(set).filter(...).length
        survived       == Cardinality({i \in 1..Len(firstDayTokens) :
                                          setHas(lastDayTokens, firstDayTokens[i])})
        newEntrants    == Cardinality({i \in 1..Len(lastDayTokens) :
                                          ~setHas(firstDayTokens, lastDayTokens[i])})
    IN  [defined        |-> TRUE,
         startingTokens |-> Len(firstDayTokens),
         endingTokens   |-> Len(lastDayTokens),
         survived       |-> survived,
         dropped        |-> Len(firstDayTokens) - survived,
         newEntrants    |-> newEntrants,
         survivalRate   |-> IF Len(firstDayTokens) > 0
                            THEN JsMul(JsDiv(Num(survived), Num(Len(firstDayTokens))), Num(100))
                            ELSE Num(0)]

\* lastDay taken one snapshot too early
analyzeSurvivalRates_offByOne(data) ==
    IF Len(data) < 2 THEN NoSurvival
    ELSE survivalOf(data[1].tokens, data[Len(data) - 1].tokens)

analyzeSurvivalRates(data) ==
    IF Len(data) < 2 THEN NoSurvival
    ELSE survivalOf(data[1].tokens, data[Len(data)].tokens)

\* One asset (address A, symbol X) with every price or every market cap,
\* missing and zero included, and an asset without address that shares the
\* symbol X.
\* tokens.filter(...) of analyzeNewLaunches; daysSinceLaunch is null (Undef
\* here) for an asset that is not from the launchpad
isNewLaunch(token) ==
    token.isFromLetsBonk /\ token.daysSinceLaunch # Undef /\ JsLe(token.daysSinceLaunch, Num(7))

\* which of the three filters of analyzeNewLaunches keeps the series
launchBucket(token) ==
    IF JsGt(token.weeklyGrowth, Num(50)) THEN "successful"
    ELSE IF JsGt(token.weeklyGrowth, Num(0)) /\ JsLe(token.weeklyGrowth, Num(50)) THEN "moderate"
    ELSE IF JsLe(token.weeklyGrowth, Num(0)) THEN "unsuccessful"
    ELSE "none"

RECURSIVE countIn(_, _)
countIn(toks, bucket) ==
    IF toks = <<>> THEN 0
    ELSE (IF isNewLaunch(Head(toks)) /\ (bucket = "total" \/ launchBucket(Head(toks)) = bucket)
          THEN 1 ELSE 0) + countIn(Tail(toks), bucket)

NoNewLaunches == [total |-> 0, successful |-> 0, moderate |-> 0, unsuccessful |-> 0,
                  successRate |-> Num(0)]

analyzeNewLaunches(toks) ==
    LET total == countIn(toks, "total")
        successful == countIn(toks, "successful")
    IN  [total |-> total,
         successful |-> successful,
         moderate |-> countIn(toks, "moderate"),
         unsuccessful |-> countIn(toks, "unsuccessful"),
         successRate |-> IF total > 0 THEN JsMul(JsDiv(Num(successful), Num(total)), Num(100))
                         ELSE Num(0)]

\* the filter of getMarketCapGrowthLeaders
isCapGrower(token) == JsGt(token.maxMarketCap, token.minMarketCap) /\ token.daysActive >= 3

RECURSIVE filterCapGrowers(_)
filterCapGrowers(toks) ==
    IF toks = <<>> THEN <<>>
    ELSE (IF isCapGrower(Head(toks)) THEN <<Head(toks)>> ELSE <<>>)
         \o filterCapGrowers(Tail(toks))

\* ((max - min) / min) * 100 of a series the filter kept: max - min is
\* positive, and a positive number over 0 is Infinity
marketCapGrowth(token) ==
    IF token.minMarketCap = Num(0) THEN Infinity
    ELSE JsMul(JsDiv(JsSub(token.maxMarketCap, token.minMarketCap), token.minMarketCap),
               Num(100))

\* x > y over the numbers and Infinity
GrowthGt(x, y) == IF x = Infinity THEN y # Infinity ELSE JsGt(x, y)

\* the stable sort with (a, b) => b.marketCapGrowth - a.marketCapGrowth; the
\* NaN of Infinity - Infinity counts as 0
RECURSIVE capGrowthInsertionPoint(_, _, _)
capGrowthInsertionPoint(sorted, a, i) ==
    IF i > Len(sorted) THEN i
    ELSE IF GrowthGt(a.marketCapGrowth, sorted[i].marketCapGrowth) THEN i
    ELSE capGrowthInsertionPoint(sorted, a, i + 1)

RECURSIVE sortByCapGrowthFrom(_, _)
sortByCapGrowthFrom(rest, sorted) ==
    IF rest = <<>> THEN sorted
    ELSE LET a == Head(rest)
             k == capGrowthInsertionPoint(sorted, a, 1)
         IN  sortByCapGrowthFrom(Tail(rest),
                      SubSeq(sorted, 1, k - 1) \o <<a>> \o SubSeq(sorted, k, Len(sorted)))

\* limit = 10
DefaultLeaders == 10

getMarketCapGrowthLeaders(toks, limit) ==
    LET kept   == filterCapGrowers(toks)
        grown  == [i \in 1..Len(kept) |->
                      [token |-> kept[i], marketCapGrowth |-> marketCapGrowth(kept[i])]]
        sorted == sortByCapGrowthFrom(grown, <<>>)
        sliced == SubSeq(sorted, 1, IF Len(sorted) < limit THEN Len(sorted) ELSE limit)
    IN  [i \in 1..Len(sliced) |->
            [symbol           |-> sliced[i].token.symbol,
             marketCapGrowth  |-> sliced[i].marketCapGrowth,
             startMarketCap   |-> sliced[i].token.minMarketCap,
             peakMarketCap    |-> sliced[i].token.maxMarketCap,
             currentMarketCap |-> sliced[i].token.marketCap,
             daysActive       |-> sliced[i].token.daysActive,
             isFromLetsBonk   |-> sliced[i].token.isFromLetsBonk]]

\* asset A comes from the launchpad: 2 days after its launch in the records
\* whose price varies, 9 days after it in the others
WeeklyTokens ==
    {[BaseToken EXCEPT !.address = "A", !.symbol = "X", !.price = p, !.marketCap = Num(1),
                       !.isFromLetsBonk = TRUE, !.daysSinceLaunch = Num(2)] :
        p \in Opt(0..2)}
    \cup {[BaseToken EXCEPT !.address = "A", !.symbol = "X", !.price = Num(1), !.marketCap = m,
                            !.isFromLetsBonk = TRUE, !.daysSinceLaunch = Num(9)] :
        m \in Opt(0..2) \ {Num(1)}}
    \cup {[BaseToken EXCEPT !.symbol = "X", !.price = Num(1), !.marketCap = Num(1)]}

DaySnapshots == {deduplicateTokens(raw) : raw \in SeqsUpTo(WeeklyTokens, 2)}

InitWeekly ==
    /\ \E days \in SeqsUpTo(DaySnapshots, MaxDays) :
          weeklyData = [i \in 1..Len(days) |-> [date |-> i, tokens |-> days[i]]]
    /\ aggregated = <<>>
    /\ survival = NoSurvival
    /\ newLaunchAnalysis = NoNewLaunches
    /\ marketCapGrowthLeaders = <<>>
    /\ wpc = "load"
    /\ IdleExceptWeekly

\* generateWeeklyReport (main.js) with no snapshot in the range: returns null
NoHistoricalData ==
    /\ wpc = "load" /\ Len(weeklyData) = 0
    /\ wpc' = "none"
    /\ UNCHANGED <<weeklyData, aggregated, survival, newLaunchAnalysis,
                   marketCapGrowthLeaders, exceptWeekly>>

\* prepareWeeklyData: the aggregation and the cohort analysis of the range
PrepareWeeklyData ==
    /\ wpc = "load" /\ Len(weeklyData) > 0
    /\ aggregated' = aggregateWeeklyTokenData(weeklyData)
    /\ survival' = analyzeSurvivalRates(weeklyData)
    /\ newLaunchAnalysis' = analyzeNewLaunches(aggregated')
    /\ marketCapGrowthLeaders' = getMarketCapGrowthLeaders(aggregated', DefaultLeaders)
    /\ wpc' = "report"
    /\ UNCHANGED <<weeklyData, exceptWeekly>>

\* the report of the same range prepared a second time: the snapshot objects
\* are only read (the series are built from copies, {...token}), so the
\* second call sees the list the first one saw
PrepareWeeklyDataAgain ==
    /\ wpc = "report"
    /\ aggregated' = aggregateWeeklyTokenData(weeklyData)
    /\ survival' = analyzeSurvivalRates(weeklyData)
    /\ newLaunchAnalysis' = analyzeNewLaunches(aggregated')
    /\ marketCapGrowthLeaders' = getMarketCapGrowthLeaders(aggregated', DefaultLeaders)
    /\ wpc' = "again"
    /\ UNCHANGED <<weeklyData, exceptWeekly>>

NextWeekly == NoHistoricalData \/ PrepareWeeklyData

SpecWeekly == InitWeekly /\ [][NextWeekly]_vars

\* the series getMarketCapGrowthLeaders was given that a leader was made from
SeriesOf(leader) ==
    {i \in 1..Len(aggregated) :
        /\ aggregated[i].symbol = leader.symbol
        /\ aggregated[i].minMarketCap = leader.startMarketCap
        /\ aggregated[i].maxMarketCap = leader.peakMarketCap
        /\ aggregated[i].daysActive = leader.daysActive}

Min(a, b) == IF a < b THEN a ELSE b

\* C25: getMarketCapGrowthLeaders returns only assets with maxMarketCap >
\* minMarketCap and daysActive >= 3, each with marketCapGrowth = (max - min) /
\* min * 100, a finite positive number, in non-increasing order of
\* marketCapGrowth and truncated to the limit, for every aggregated input,
\* assets whose market cap was missing or zero on some day included.
LeadersHaveFiniteGrowth ==
    wpc = "report" =>
        LET leaders == marketCapGrowthLeaders
        IN  /\ Len(leaders) =
                   Min(DefaultLeaders,
                       Cardinality({i \in 1..Len(aggregated) : isCapGrower(aggregated[i])}))
            /\ \A i \in 1..Len(leaders) :
                   /\ JsGt(leaders[i].peakMarketCap, leaders[i].startMarketCap)
                   /\ leaders[i].daysActive >= 3
                   /\ IsNum(leaders[i].marketCapGrowth)
                   /\ JsGt(leaders[i].marketCapGrowth, Num(0))
                   /\ leaders[i].marketCapGrowth =
                          JsMul(JsDiv(JsSub(leaders[i].peakMarketCap, leaders[i].startMarketCap),
                                      leaders[i].startMarketCap), Num(100))
            /\ \A i, j \in 1..Len(leaders) :
                   i < j => JsGe(leaders[i].marketCapGrowth, leaders[j].marketCapGrowth)

\* C30: for every asset getMarketCapGrowthLeaders lists, currentMarketCap is
\* the market cap of the last daily point of the asset's series, and
\* startMarketCap <= currentMarketCap <= peakMarketCap.
CurrentCapIsLatest ==
    wpc = "report" =>
        \A i \in 1..Len(marketCapGrowthLeaders) :
            LET leader == marketCapGrowthLeaders[i]
            IN  /\ \E k \in SeriesOf(leader) :
                       leader.currentMarketCap =
                           aggregated[k].dailyData[Len(aggregated[k].dailyData)].marketCap
                /\ JsLe(leader.startMarketCap, leader.currentMarketCap)
                /\ JsLe(leader.currentMarketCap, leader.peakMarketCap)

\* SpecRepeat: the report of one range prepared twice
InitRepeat ==
    /\ \E days \in SeqsUpTo(DaySnapshots, MaxRepeatDays) :
          weeklyData = [i \in 1..Len(days) |-> [date |-> i, tokens |-> days[i]]]
    /\ aggregated = <<>>
    /\ survival = NoSurvival
    /\ newLaunchAnalysis = NoNewLaunches
    /\ marketCapGrowthLeaders = <<>>
    /\ wpc = "load"
    /\ IdleExceptWeekly

NextRepeat == NoHistoricalData \/ PrepareWeeklyData \/ PrepareWeeklyDataAgain

SpecRepeat == InitRepeat /\ [][NextRepeat]_vars

NewLaunchBucketsPartition ==
    wpc = "report" =>
        /\ newLaunchAnalysis.successful + newLaunchAnalysis.moderate
              + newLaunchAnalysis.unsuccessful = newLaunchAnalysis.total
        /\ newLaunchAnalysis.successRate =
              (IF newLaunchAnalysis.total = 0 THEN Num(0)
               ELSE Rat(100 * newLaunchAnalysis.successful, newLaunchAnalysis.total))

KeysOfDay(day) == {CanonicalKey(t) : t \in Range(day.tokens)}
AllKeys == UNION {KeysOfDay(weeklyData[d]) : d \in 1..Len(weeklyData)}
DaysWith(key) == {d \in 1..Len(weeklyData) : key \in KeysOfDay(weeklyData[d])}

\* C4: one series per distinct canonical identity seen in any snapshot, and
\* daysActive of a series is the number of snapshots containing its identity
\* (never more than the number of snapshots) and the number of its daily points.
OneSeriesPerIdentity ==
    wpc = "report" =>
        /\ {s.key : s \in Range(aggregated)} = AllKeys
        /\ Len(aggregated) = Cardinality(AllKeys)
        /\ \A s \in Range(aggregated) :
              /\ s.key = CanonicalKey(s)
              /\ s.daysActive = Cardinality(DaysWith(s.key))
              /\ s.daysActive = Len(s.dailyData)
              /\ s.daysActive <= Len(weeklyData)

\* two assets sharing a symbol, one keyed by address and one by symbol, seen
\* on different numbers of days
TwoIdentitiesWitness ==
    /\ wpc = "report" /\ Len(aggregated) = 2
    /\ \E s, u \in Range(aggregated) :
          /\ s.key = "A" /\ u.key = "X" /\ s.symbol = u.symbol
          /\ s.daysActive = 3 /\ u.daysActive = 1

\* the daily prices of a series that are present and positive
RECURSIVE ValidPrices(_)
ValidPrices(dailyData) ==
    IF dailyData = <<>> THEN <<>>
    ELSE (IF JsGt(Head(dailyData).price, Num(0)) THEN <<Head(dailyData).price>> ELSE <<>>)
         \o ValidPrices(Tail(dailyData))

SpecWeeklyGrowth(s) ==
    LET valid == ValidPrices(s.dailyData)
    IN  IF Len(s.dailyData) < 2 \/ valid = <<>> THEN Num(0)
        ELSE calculatePercentageChange(valid[Len(valid)], valid[1])

\* C5: weeklyGrowth is percentChange(most recent valid price, earliest valid
\* price) for a series of at least 2 points and 0 otherwise; points with a
\* missing or zero price are skipped when the two endpoints are chosen.
WeeklyGrowthSkipsInvalidPrices ==
    wpc = "report" => \A s \in Range(aggregated) : s.weeklyGrowth = SpecWeeklyGrowth(s)

\* the market caps of a series that are present and non-zero
ObservedCaps(s) ==
    {s.dailyData[i].marketCap : i \in 1..Len(s.dailyData)} \ {Undef, Num(0)}

\* C6: minMarketCap is the minimum and maxMarketCap the maximum of the market
\* caps observed for the identity; a missing or zero market cap in the first
\* snapshot does not pin minMarketCap to 0.
MinMaxAreObserved ==
    wpc = "report" =>
        \A s \in Range(aggregated) :
            ObservedCaps(s) # {} =>
                /\ s.minMarketCap \in ObservedCaps(s)
                /\ s.maxMarketCap \in ObservedCaps(s)
                /\ \A c \in ObservedCaps(s) : JsLe(s.minMarketCap, c) /\ JsGe(s.maxMarketCap, c)

FirstKeys == KeysOfDay(weeklyData[1])
LastKeys  == KeysOfDay(weeklyData[Len(weeklyData)])

\* C9: survived = |F \cap L|, dropped = |F| - survived, newEntrants = |L \ F|,
\* survivalRate = survived/|F|*100 (0 for empty F), so that survived + dropped
\* = startingTokens and survived + newEntrants = endingTokens; no result for
\* fewer than 2 snapshots.
SurvivalIsSetAlgebra ==
    wpc = "report" =>
        IF Len(weeklyData) < 2 THEN ~survival.defined
        ELSE /\ survival.defined
             /\ survival.startingTokens = Cardinality(FirstKeys)
             /\ survival.endingTokens = Cardinality(LastKeys)
             /\ survival.survived = Cardinality(FirstKeys \cap LastKeys)
             /\ survival.dropped = Cardinality(FirstKeys) - survival.survived
             /\ survival.newEntrants = Cardinality(LastKeys \ FirstKeys)
             /\ survival.survived + survival.dropped = survival.startingTokens
             /\ survival.survived + survival.newEntrants = survival.endingTokens
             /\ survival.survivalRate =
                  (IF FirstKeys = {} THEN Num(0)
                   ELSE Rat(100 * Cardinality(FirstKeys \cap LastKeys), Cardinality(FirstKeys)))

\* a range whose first day holds two identities of which one survives, one is
\* dropped, and none is new: survival rate 50
SurvivalWitness ==
    /\ wpc = "report" /\ Len(weeklyData) = 3
    /\ survival.defined
    /\ survival.startingTokens = 2 /\ survival.survived = 1 /\ survival.dropped = 1
    /\ survival.newEntrants = 0
    /\ survival.survivalRate = Num(50)

(***************************************************************************)
(* SpecHistory: the queries of database.js over the snapshots of a range:  *)
(* getTokenHistory and getTopPerformers.                                   *)
(***************************************************************************)
\* dayData.tokens?.find(token => token.address === tokenAddress ||
\*                               token.symbol === tokenAddress)
RECURSIVE findToken(_, _)
findToken(toks, tokenAddress) ==
    IF toks = <<>> THEN <<>>
    ELSE IF Head(toks).address = tokenAddress \/ Head(toks).symbol = tokenAddress
         THEN <<Head(toks)>>
    ELSE findToken(Tail(toks), tokenAddress)

RECURSIVE tokenHistoryOf(_, _)
tokenHistoryOf(data, tokenAddress) ==
    IF data = <<>> THEN <<>>
    ELSE LET tokenData == findToken(Head(data).tokens, tokenAddress)
             rest == tokenHistoryOf(Tail(data), tokenAddress)
         IN  IF tokenData # <<>>
             THEN <<[date |-> Head(data).date, token |-> tokenData[1]]>> \o rest
             ELSE rest

getTokenHistory(data, tokenAddress) == tokenHistoryOf(data, tokenAddress)

\* getTopPerformers: the accumulator of one key
newPerformance(token) ==
    [key |-> CanonicalKey(token),
     token |-> token,
     firstPrice |-> token.price,
     lastPrice |-> token.price,
     totalVolume |-> Num(0),
     daysActive |-> 0,
     maxMarketCap |-> JsOr(token.marketCap, Num(0))]

updatePerformance(perf, token) ==
    [perf EXCEPT !.lastPrice = token.price,
                 !.totalVolume = JsAdd(@, JsOr(token.volume24h, Num(0))),
                 !.daysActive = @ + 1,
                 !.maxMarketCap = MathMax(@, JsOr(token.marketCap, Num(0))),
                 !.token = token]

performanceToken(map, token) ==
    LET key == CanonicalKey(token)
        m1  == IF mapHas(map, key) THEN map ELSE Append(map, newPerformance(token))
        i   == mapIndex(m1, key)
    IN  [m1 EXCEPT ![i] = updatePerformance(m1[i], token)]

RECURSIVE performanceDay(_, _)
performanceDay(map, toks) ==
    IF toks = <<>> THEN map
    ELSE performanceDay(performanceToken(map, Head(toks)), Tail(toks))

RECURSIVE performanceDays(_, _)
performanceDays(map, data) ==
    IF data = <<>> THEN map
    ELSE performanceDays(performanceDay(map, Head(data).tokens), Tail(data))

\* perf.daysActive >= Math.min(days * 0.5, 3)
activeEnough(perf, days) ==
    JsGe(Num(perf.daysActive), MathMin(JsMul(Num(days), Rat(1, 2)), Num(3)))

RECURSIVE filterActive(_, _)
filterActive(perfs, days) ==
    IF perfs = <<>> THEN <<>>
    ELSE (IF activeEnough(Head(perfs), days) THEN <<Head(perfs)>> ELSE <<>>)
         \o filterActive(Tail(perfs), days)

performerOf(perf) ==
    [key |-> perf.key,
     token |-> perf.token,
     periodGrowth |-> IF JsGt(perf.firstPrice, Num(0))
                      THEN JsMul(JsDiv(JsSub(perf.lastPrice, perf.firstPrice), perf.firstPrice),
                                 Num(100))
                      ELSE Num(0),
     avgDailyVolume |-> JsDiv(perf.totalVolume, Num(perf.daysActive)),
     daysActive |-> perf.daysActive,
     maxMarketCap |-> perf.maxMarketCap]

\* .sort((a, b) => b.periodGrowth - a.periodGrowth): stable when every growth
\* is a number; with a NaN growth the comparator is not consistent and the
\* order is implementation-defined (ECMAScript, Array.prototype.sort)
RECURSIVE growthInsertionPoint(_, _, _)
growthInsertionPoint(sorted, a, i) ==
    IF i > Len(sorted) THEN i
    ELSE IF JsGt(a.periodGrowth, sorted[i].periodGrowth) THEN i
    ELSE growthInsertionPoint(sorted, a, i + 1)

RECURSIVE sortByGrowthFrom(_, _)
sortByGrowthFrom(rest, sorted) ==
    IF rest = <<>> THEN sorted
    ELSE LET a == Head(rest)
             k == growthInsertionPoint(sorted, a, 1)
         IN  sortByGrowthFrom(Tail(rest),
                      SubSeq(sorted, 1, k - 1) \o <<a>> \o SubSeq(sorted, k, Len(sorted)))

sortByGrowthOutcomes(performers) ==
    IF \A i \in 1..Len(performers) : IsNum(performers[i].periodGrowth)
    THEN {sortByGrowthFrom(performers, <<>>)}
    ELSE {q \in [1..Len(performers) -> Range(performers)] : Range(q) = Range(performers)}

sliceTo(q, limit) == SubSeq(q, 1, IF limit < Len(q) THEN limit ELSE Len(q))

\* the results getTopPerformers can resolve with
getTopPerformers(data, days, limit) ==
    IF Len(data) = 0 THEN {<<>>}
    ELSE LET perfs == filterActive(performanceDays(<<>>, data), days)
             performers == [i \in 1..Len(perfs) |-> performerOf(perfs[i])]
         IN  {sliceTo(q, limit) : q \in sortByGrowthOutcomes(performers)}

HistoryKeys == {"A", "X"}
TopWindows  == {2, 4, 7}
TopLimits   == {1, 20}

InitHistory ==
    /\ \E days \in SeqsUpTo(DaySnapshots, MaxDays) :
          historicalData = [i \in 1..Len(days) |-> [date |-> i, tokens |-> days[i]]]
    /\ request = <<>>
    /\ reply = <<>>
    /\ IdleExceptHistory

GetTokenHistory ==
    /\ request = <<>>
    /\ \E key \in HistoryKeys :
          /\ request' = <<[op |-> "getTokenHistory", key |-> key, days |-> 0, limit |-> 0]>>
          /\ reply' = getTokenHistory(historicalData, key)
    /\ UNCHANGED <<historicalData, exceptHistory>>

\* a window of `days` days holds at most days + 1 snapshots
GetTopPerformers ==
    /\ request = <<>>
    /\ \E days \in TopWindows, limit \in TopLimits :
          /\ Len(historicalData) <= days + 1
          /\ request' = <<[op |-> "getTopPerformers", key |-> "", days |-> days,
                           limit |-> limit]>>
          /\ reply' \in getTopPerformers(historicalData, days, limit)
    /\ UNCHANGED <<historicalData, exceptHistory>>

NextHistory == GetTokenHistory \/ GetTopPerformers

SpecHistory == InitHistory /\ [][NextHistory]_vars

Asked(op) == request # <<>> /\ request[1].op = op

\* C13: for any window and limit the top performers are assets seen on at
\* least min(0.5*windowDays, 3) days and on no fewer than 3 days, ordered by
\* non-increasing period growth, and at most `limit` of them.
TopPerformersSeenThreeDays ==
    Asked("getTopPerformers") =>
        /\ \A i \in 1..Len(reply) :
              /\ reply[i].daysActive >= 3
              /\ 2 * reply[i].daysActive >= request[1].days \/ reply[i].daysActive >= 3
        /\ \A i, j \in 1..Len(reply) :
              i < j => JsGe(reply[i].periodGrowth, reply[j].periodGrowth)
        /\ Len(reply) <= request[1].limit

\* the records of the asset whose canonical identity is `key`, one per day
\* on which it was stored
RECURSIVE RecordsOfIdentity(_, _)
RecordsOfIdentity(data, key) ==
    IF data = <<>> THEN <<>>
    ELSE LET day == Head(data)
             own == {i \in 1..Len(day.tokens) : CanonicalKey(day.tokens[i]) = key}
         IN  (IF own = {} THEN <<>>
              ELSE <<[date |-> day.date, token |-> day.tokens[CHOOSE i \in own : TRUE]]>>)
             \o RecordsOfIdentity(Tail(data), key)

\* C17: the history getTokenHistory(address || symbol) returns holds, per day,
\* exactly the record whose canonical identity (address if present, else
\* symbol) equals the key, and never a record of another identity.
HistoryJoinsOnCanonicalKey ==
    Asked("getTokenHistory") =>
        /\ \A i \in 1..Len(reply) : CanonicalKey(reply[i].token) = request[1].key
        /\ reply = RecordsOfIdentity(historicalData, request[1].key)

(***************************************************************************)
(* SpecDb: the token database (database.js): saveTokenData on successive   *)
(* days, loadTokenData and loadHistoricalData.  An instant is a calendar   *)
(* day (the UTC day getDateString prints) and a time of day; setDate(+1)   *)
(* moves an instant to the same time of the next day.                      *)
(***************************************************************************)
Ticks == {0, 1}

Instant(day, tick) == [day |-> day, tick |-> tick]

\* date <= end on Date objects
InstantLe(a, b) == a.day < b.day \/ (a.day = b.day /\ a.tick <= b.tick)

\* getDateString(date): date.toISOString().split('T')[0]
getDateString(date) == date.day

\* tokens.map(token => ({...token, lastUpdated: timestamp}))
stamped(toks, timestamp) ==
    [i \in 1..Len(toks) |-> [lastUpdated |-> timestamp] @@ toks[i]]

\* dataToSave of saveTokenData
dataToSave(toks, timestamp, dateStr) ==
    [timestamp |-> timestamp, date |-> dateStr, totalTokens |-> Len(toks),
     tokens |-> stamped(toks, timestamp)]

\* loadTokenData: loadJsonFile(tokensFile, {tokens: []}).tokens || []
loadTokenData(file) == IF file = <<>> THEN <<>> ELSE file[1].tokens

\* the for-loop of loadHistoricalData from `date` on
RECURSIVE loadFrom(_, _, _)
loadFrom(dir, date, end) ==
    IF ~InstantLe(date, end) THEN <<>>
    ELSE LET dateStr == getDateString(date)
             dayData == IF dateStr \in DOMAIN dir THEN dir[dateStr] ELSE <<>>
         IN  dayData \o loadFrom(dir, [date EXCEPT !.day = @ + 1], end)

loadHistoricalData(dir, startDate, endDate) == loadFrom(dir, startDate, endDate)

NoLoad == [op |-> "none", start |-> Instant(0, 0), end |-> Instant(0, 0),
           after |-> 0, result |-> <<>>]

NoClean == [calls |-> 0, now |-> Instant(0, 0), retentionDays |-> 0, returned |-> 0]

\* the batches main.js saves: one asset at two prices, or nothing collected
DbBatches ==
    {<<>>} \cup {<<[BaseToken EXCEPT !.address = "A", !.price = Num(p)]>> : p \in {1, 2}}

\* Database.initialize on an empty data directory
InitDb ==
    /\ today = 1
    /\ tokensFile = <<>>
    /\ historicalDir = [d \in 1..DbDays |-> <<>>]
    /\ saves = <<>>
    /\ loaded = NoLoad
    /\ cleaned = NoClean
    /\ IdleExceptDb

\* saveTokenData: both files are overwritten with the same object
SaveTokenData ==
    /\ Len(saves) < MaxSaves
    /\ \E toks \in DbBatches :
          LET data == dataToSave(toks, Len(saves) + 1, today)
          IN  /\ tokensFile' = <<data>>
              /\ historicalDir' = [historicalDir EXCEPT ![today] = <<data>>]
              /\ saves' = Append(saves, data)
    /\ UNCHANGED <<today, loaded, cleaned, exceptDb>>

\* midnight (UTC) passes
NextDay ==
    /\ today < DbDays
    /\ today' = today + 1
    /\ UNCHANGED <<tokensFile, historicalDir, saves, loaded, cleaned, exceptDb>>

LoadTokenData ==
    /\ loaded' = [NoLoad EXCEPT !.op = "loadTokenData", !.after = Len(saves),
                                !.result = loadTokenData(tokensFile)]
    /\ UNCHANGED <<today, tokensFile, historicalDir, saves, cleaned, exceptDb>>

\* the callers pass a start that is not after the end
LoadHistoricalData ==
    /\ \E sd \in 1..DbDays, ed \in 1..DbDays, st \in Ticks, et \in Ticks :
          /\ InstantLe(Instant(sd, st), Instant(ed, et))
          /\ loaded' = [op |-> "loadHistoricalData",
                        start |-> Instant(sd, st), end |-> Instant(ed, et),
                        after |-> Len(saves),
                        result |-> loadHistoricalData(historicalDir, Instant(sd, st),
                                                      Instant(ed, et))]
    /\ UNCHANGED <<today, tokensFile, historicalDir, saves, cleaned, exceptDb>>

NextDb == SaveTokenData \/ NextDay \/ LoadTokenData \/ LoadHistoricalData

SpecDb == InitDb /\ [][NextDb]_vars

\* fileDate < cutoffDate on Date objects
InstantLt(a, b) == a.day < b.day \/ (a.day = b.day /\ a.tick < b.tick)

\* cutoffDate.setDate(cutoffDate.getDate() - retentionDays): the same time of
\* day, retentionDays earlier
cutoffDate(now, retentionDays) == Instant(now.day - retentionDays, now.tick)

\* new Date('YYYY-MM-DD'): midnight (UTC) of the day in the file name
fileDate(day) == Instant(day, 0)

\* the files cleanOldData unlinks
oldFiles(dir, now, retentionDays) ==
    {d \in DOMAIN dir :
        dir[d] # <<>> /\ InstantLt(fileDate(d), cutoffDate(now, retentionDays))}

\* dataRetentionDays of the configuration
RetentionChoices == {1, 2}

\* cleanOldData(retentionDays) at some time of the day
CleanOldData ==
    /\ cleaned.calls < MaxCleans
    /\ \E tick \in Ticks, retentionDays \in RetentionChoices :
          LET now     == Instant(today, tick)
              deleted == oldFiles(historicalDir, now, retentionDays)
          IN  /\ historicalDir' = [d \in DOMAIN historicalDir |->
                                      IF d \in deleted THEN <<>> ELSE historicalDir[d]]
              /\ cleaned' = [calls |-> cleaned.calls + 1, now |-> now,
                             retentionDays |-> retentionDays,
                             returned |-> Cardinality(deleted)]
    /\ UNCHANGED <<today, tokensFile, saves, loaded, exceptDb>>

NextClean == SaveTokenData \/ NextDay \/ CleanOldData

\* SpecClean: saves on successive days with cleanups in between
SpecClean == InitDb /\ [][NextClean]_vars

\* the instants from..to, both included
InstantsBetween(from, to) ==
    {Instant(d, t) : d \in from.day..to.day, t \in Ticks} \cap
    {i \in [day : from.day..to.day, tick : Ticks] : InstantLe(from, i) /\ InstantLe(i, to)}

\* C26: cleanOldData(retentionDays) deletes snapshot files dated before now -
\* retentionDays and nothing else: the current snapshot file and every snapshot
\* dated within the retention period are unchanged, so loadHistoricalData over
\* any range inside the retention period returns the same snapshots before and
\* after the cleanup; the returned count is the number of files deleted.
CleanupKeepsRetentionPeriod ==
    [][cleaned'.calls # cleaned.calls =>
          LET cutoff == cutoffDate(cleaned'.now, cleaned'.retentionDays)
              gone   == {d \in DOMAIN historicalDir :
                            historicalDir[d] # <<>> /\ historicalDir'[d] = <<>>}
          IN  /\ tokensFile' = tokensFile
              /\ \A d \in DOMAIN historicalDir :
                     /\ d \notin gone => historicalDir'[d] = historicalDir[d]
                     /\ d \in gone => d <= cutoff.day
                     /\ (historicalDir[d] # <<>> /\ d < cutoff.day) => d \in gone
              /\ cleaned'.returned = Cardinality(gone)
              /\ \A start \in InstantsBetween(cutoff, cleaned'.now) :
                     \A end \in InstantsBetween(start, cleaned'.now) :
                        loadHistoricalData(historicalDir', start, end)
                            = loadHistoricalData(historicalDir, start, end)]_vars

\* the saves made before the load
SavesBeforeLoad == SubSeq(saves, 1, loaded.after)

SavesOn(day) == {i \in 1..Len(SavesBeforeLoad) : SavesBeforeLoad[i].date = day}

LastSaveOn(day) ==
    SavesBeforeLoad[CHOOSE i \in SavesOn(day) : \A j \in SavesOn(day) : j <= i]

\* the last snapshot saved on each day of first..last on which one was saved,
\* in ascending order of the days
RECURSIVE LastSavedPerDay(_, _)
LastSavedPerDay(first, last) ==
    IF first > last THEN <<>>
    ELSE (IF SavesOn(first) = {} THEN <<>> ELSE <<LastSaveOn(first)>>)
         \o LastSavedPerDay(first + 1, last)

\* C18: after any saves, loadHistoricalData(start, end) returns, in strictly
\* ascending date order, the last snapshot saved on each calendar day from the
\* day of start to the day of end inclusive, nothing for the days without a
\* save; loadTokenData returns the tokens of the most recent save.
LoadReturnsLastSavePerDay ==
    /\ loaded.op = "loadHistoricalData" =>
          loaded.result = LastSavedPerDay(loaded.start.day, loaded.end.day)
    /\ loaded.op = "loadTokenData" =>
          loaded.result = (IF SavesBeforeLoad = <<>> THEN <<>>
                           ELSE SavesBeforeLoad[Len(SavesBeforeLoad)].tokens)

(***************************************************************************)
(* SpecRequest: makeRequest of DexScreenerAPI (part_002) and LetsBonkAPI   *)
(* (letsbonk.js), the same code in both: one call with its recursive       *)
(* retries.  An attempt is rateLimiter.wait() followed by client.get(url). *)
(***************************************************************************)
RECURSIVE Pow2(_)
Pow2(k) == IF k = 0 THEN 1 ELSE 2 * Pow2(k - 1)

waitTime_linear(count) == (count + 1) * 1000

\* const waitTime = Math.pow(2, retryCount) * 1000
waitTime(count) == Pow2(count) * 1000

Apis      == {"dexscreener", "letsbonk"}
Responses == {"data1", "data2"}
Errors    == {"timeout", "status500"}

Pending == [kind |-> "pending", value |-> ""]

\* makeRequest(url) with retryCount = 0; maxRetries is config.api.*.maxRetries
InitRequest ==
    /\ api \in Apis
    /\ maxRetries \in 0..MaxRetries
    /\ retryCount = 0
    /\ attempts = 0
    /\ waits = <<>>
    /\ settled = Pending
    /\ rpc = "try"
    /\ IdleExceptRequest

\* the try block completes: return response.data
RequestSucceeds ==
    /\ rpc = "try"
    /\ attempts' = attempts + 1
    /\ \E data \in Responses : settled' = [kind |-> "returned", value |-> data]
    /\ rpc' = "returned"
    /\ UNCHANGED <<api, maxRetries, retryCount, waits, exceptRequest>>

\* the catch block: sleep before a retry, or throw error
RequestFails ==
    /\ rpc = "try"
    /\ attempts' = attempts + 1
    /\ \E error \in Errors :
          IF retryCount < maxRetries
          THEN /\ waits' = Append(waits, waitTime(retryCount))
               /\ rpc' = "sleep"
               /\ UNCHANGED settled
          ELSE /\ settled' = [kind |-> "thrown", value |-> error]
               /\ rpc' = "thrown"
               /\ UNCHANGED waits
    /\ UNCHANGED <<api, maxRetries, retryCount, exceptRequest>>

\* await sleep(waitTime) resolves: return this.makeRequest(url, retryCount + 1)
RetryAfterSleep ==
    /\ rpc = "sleep"
    /\ retryCount' = retryCount + 1
    /\ rpc' = "try"
    /\ UNCHANGED <<api, maxRetries, attempts, waits, settled, exceptRequest>>

NextRequest == RequestSucceeds \/ RequestFails \/ RetryAfterSleep

SpecRequest == InitRequest /\ [][NextRequest]_vars

\* the HTTP client has a timeout of 30 s, so an attempt ends, and a timer set by
\* sleep fires: no step of makeRequest stays enabled for ever
SpecRequestFair == SpecRequest /\ WF_vars(NextRequest)

RequestSettled == rpc \in {"returned", "thrown"}

RetryInvariant ==
    /\ attempts <= maxRetries + 1
    /\ \A k \in 0..(Len(waits) - 1) : waits[k + 1] = Pow2(k) * 1000
    /\ rpc = "returned" => (settled.kind = "returned" /\ attempts = Len(waits) + 1)
    /\ rpc = "thrown" =>
          /\ settled.kind = "thrown" /\ settled.value \in Errors
          /\ attempts = maxRetries + 1 /\ Len(waits) = maxRetries

\* C20: makeRequest makes at most maxRetries + 1 attempts, waits 2^k * 1000 ms
\* before retry number k + 1, returns the data of the first successful attempt
\* without a further attempt, rethrows the error after the last failed
\* attempt, and settles for every sequence of request outcomes.
RetriesWithBackoff ==
    /\ []RetryInvariant
    /\ [][RequestSettled => (attempts' = attempts /\ settled' = settled)]_vars
    /\ <>RequestSettled

\* the error is rethrown after three retries that waited 1, 2 and 4 seconds
BackoffWitness ==
    /\ rpc = "thrown"
    /\ maxRetries = 3
    /\ attempts = 4
    /\ waits = <<1000, 2000, 4000>>

(***************************************************************************)
(* SpecStats: the consistency helpers on a sequence of non-negative        *)
(* numbers.  A result 1 - sqrt(q) is kept in thousandths, rounded down, so *)
(* that its sign and the values 0 and 1 are exact.                         *)
(***************************************************************************)
RECURSIVE sumOf(_)
sumOf(vals) == IF vals = <<>> THEN Num(0) ELSE JsAdd(Head(vals), sumOf(Tail(vals)))

\* values.reduce((a, b) => a + b, 0) / values.length
meanOf(vals) == JsDiv(sumOf(vals), Num(Len(vals)))

\* values.reduce((a, b) => a + Math.pow(b - mean, 2), 0) / values.length
varianceOf(vals) ==
    LET mean == meanOf(vals)
        sq   == [i \in 1..Len(vals) |-> JsMul(JsSub(vals[i], mean), JsSub(vals[i], mean))]
    IN  JsDiv(sumOf(sq), Num(Len(vals)))

\* the least k with k >= 1000 * sqrt(q), for a rational q >= 0
\* (bisection between lo, too small or 0, and hi, large enough)
RECURSIVE sqrtMilliUpIn(_, _, _)
sqrtMilliUpIn(q, lo, hi) ==
    IF lo >= hi THEN hi
    ELSE LET mid == (lo + hi) \div 2
         IN  IF mid * mid * q.d >= 1000000 * q.n
             THEN sqrtMilliUpIn(q, lo, mid)
             ELSE sqrtMilliUpIn(q, mid + 1, hi)

\* sqrt(q) <= q + 1 bounds the search
sqrtMilliUp(q) == sqrtMilliUpIn(q, 0, 1000 * (q.n \div q.d + 1))

\* 1 - stdDev / mean in thousandths, rounded down (mean > 0)
oneMinusStdDevOverMean(vals) ==
    LET mean == meanOf(vals)
        q    == JsDiv(varianceOf(vals), JsMul(mean, mean))
    IN  1000 - sqrtMilliUp(q)

Max(a, b) == IF a > b THEN a ELSE b

\* PerformanceAnalyzer.calculateConsistency
calculateConsistency(vals) ==
    IF Len(vals) < 2 THEN 0
    ELSE IF JsGt(meanOf(vals), Num(0)) THEN oneMinusStdDevOverMean(vals) ELSE 0

RECURSIVE positiveOnly(_)
positiveOnly(vals) ==
    IF vals = <<>> THEN <<>>
    ELSE (IF JsGt(Head(vals), Num(0)) THEN <<Head(vals)>> ELSE <<>>) \o positiveOnly(Tail(vals))

\* WeeklyReportGenerator.calculateVolumeConsistency on the daily volumes
calculateVolumeConsistency(dailyVolumes) ==
    IF Len(dailyVolumes) < 2 THEN 0
    ELSE LET volumes == positiveOnly([i \in 1..Len(dailyVolumes) |-> JsOr(dailyVolumes[i], Num(0))])
         IN  IF volumes = <<>> THEN 0
             ELSE IF JsGt(meanOf(volumes), Num(0))
                  THEN Max(0, oneMinusStdDevOverMean(volumes))
                  ELSE 0

\* calculateTrend with the denominator n * sumXX - sumX
calculateTrend_noSquare(vals) ==
    IF Len(vals) < 2 THEN Num(0)
    ELSE LET n     == Num(Len(vals))
             sumX  == sumOf([i \in 1..Len(vals) |-> Num(i - 1)])
             sumY  == sumOf(vals)
             sumXY == sumOf([i \in 1..Len(vals) |-> JsMul(Num(i - 1), vals[i])])
             sumXX == sumOf([i \in 1..Len(vals) |-> Num((i - 1) * (i - 1))])
         IN  JsDiv(JsSub(JsMul(n, sumXY), JsMul(sumX, sumY)),
                   JsSub(JsMul(n, sumXX), sumX))

\* WeeklyReportGenerator.calculateTrend; the loop index i is position i + 1 here
calculateTrend(vals) ==
    IF Len(vals) < 2 THEN Num(0)
    ELSE LET n     == Num(Len(vals))
             sumX  == sumOf([i \in 1..Len(vals) |-> Num(i - 1)])
             sumY  == sumOf(vals)
             sumXY == sumOf([i \in 1..Len(vals) |-> JsMul(Num(i - 1), vals[i])])
             sumXX == sumOf([i \in 1..Len(vals) |-> Num((i - 1) * (i - 1))])
         IN  JsDiv(JsSub(JsMul(n, sumXY), JsMul(sumX, sumY)),
                   JsSub(JsMul(n, sumXX), JsMul(sumX, sumX)))

NoStats == [computed |-> FALSE, consistency |-> 0, volumeConsistency |-> 0,
            trended |-> FALSE, trend |-> Num(0)]

InitStats ==
    /\ values \in SeqsUpTo({Num(v) : v \in 0..MaxVal}, MaxLen)
    /\ stats = NoStats
    /\ IdleExceptStats

ComputeConsistency ==
    /\ ~stats.computed
    /\ stats' = [stats EXCEPT !.computed = TRUE,
                               !.consistency = calculateConsistency(values),
                               !.volumeConsistency = calculateVolumeConsistency(values)]
    /\ UNCHANGED <<values, exceptStats>>

\* analyzeWeeklyTrends hands a sequence of daily totals to calculateTrend
ComputeTrend ==
    /\ ~stats.trended
    /\ stats' = [stats EXCEPT !.trended = TRUE, !.trend = calculateTrend(values)]
    /\ UNCHANGED <<values, exceptStats>>

NextStats == ComputeConsistency \/ ComputeTrend

SpecStats == InitStats /\ [][NextStats]_vars

\* the consistency the specification states, in thousandths rounded down
SpecConsistency(vals) ==
    IF Len(vals) < 2 THEN 0
    ELSE IF JsGt(meanOf(vals), Num(0)) THEN Max(0, oneMinusStdDevOverMean(vals)) ELSE 0

\* C7: consistency(values) lies in [0,1] for every sequence of non-negative
\* numbers: 0 for fewer than 2 values and for mean 0, 1 for a constant
\* positive sequence, max(0, 1 - stdDev/mean) otherwise, never negative.
ConsistencyInUnitInterval ==
    stats.computed =>
        /\ 0 <= stats.consistency /\ stats.consistency <= 1000
        /\ stats.consistency = SpecConsistency(values)

\* C24: the aggregator's volumeConsistency of a daily series is max(0, .) of
\* what PerformanceAnalyzer.calculateConsistency returns on the full sequence
\* of daily volumes, a missing volume counting as 0 and the days with zero
\* volume being part of the sequence.
VolumeConsistencyIsSharedPrimitive ==
    stats.computed =>
        stats.volumeConsistency =
            Max(0, calculateConsistency([i \in 1..Len(values) |-> JsOr(values[i], Num(0))]))

\* the least-squares slope of the points (0, y0) .. (n-1, y(n-1)):
\* sum (x - mean x)(y - mean y) / sum (x - mean x)^2
LeastSquaresSlope(vals) ==
    LET xs == [i \in 1..Len(vals) |-> Num(i - 1)]
        mx == meanOf(xs)
        my == meanOf(vals)
        cov == sumOf([i \in 1..Len(vals) |-> JsMul(JsSub(xs[i], mx), JsSub(vals[i], my))])
        var == sumOf([i \in 1..Len(vals) |-> JsMul(JsSub(xs[i], mx), JsSub(xs[i], mx))])
    IN  JsDiv(cov, var)

IsArithmetic(vals, d) ==
    \A i \in 1..(Len(vals) - 1) : JsSub(vals[i + 1], vals[i]) = d

\* C19: calculateTrend returns 0 for fewer than 2 points and the least-squares
\* slope against the index 0..n-1 otherwise: exactly d for every arithmetic
\* sequence with difference d, and 0 for every constant sequence.
TrendIsLeastSquaresSlope ==
    stats.trended =>
        /\ Len(values) < 2 => stats.trend = Num(0)
        /\ Len(values) >= 2 =>
              /\ stats.trend = LeastSquaresSlope(values)
              /\ \A d \in -MaxVal..MaxVal :
                    IsArithmetic(values, Num(d)) => stats.trend = Num(d)

\* the slope of a descending arithmetic sequence of MaxLen points
DescendingTrendWitness ==
    /\ stats.trended
    /\ Len(values) = MaxLen
    /\ IsArithmetic(values, Num(-1))
    /\ stats.trend = Num(-1)

(***************************************************************************)
(* SpecLimiter: one RateLimiter (helpers.js) shared by the callers of      *)
(* makeRequest.  wait() reads the clock and this.lastCall when it is       *)
(* entered; when it has to wait it awaits a timer, and the rest of its     *)
(* body runs when the timer has fired, at the due instant or later.        *)
(* Date.now() is far above the initial lastCall = 0.                       *)
(***************************************************************************)
Callers   == {"a", "b"}
Intervals == {2, 3}

NotWaiting == [pc |-> "idle", due |-> 0]

\* wait() calls started so far: the completed ones and the pending ones
waitsStarted == Len(completed) + Cardinality({c \in Callers : waiting[c].pc = "timer"})

InitLimiter ==
    /\ intervalMs \in Intervals
    /\ clock = intervalMs
    /\ lastCall = 0
    /\ waiting = [c \in Callers |-> NotWaiting]
    /\ completed = <<>>
    /\ IdleExceptLimiter

\* time passes
Tick ==
    /\ clock < MaxClock
    /\ clock' = clock + 1
    /\ UNCHANGED <<intervalMs, lastCall, waiting, completed, exceptLimiter>>

\* lines 11-13 and 19 of wait(): lastCall is recent enough, no timer is needed
WaitPasses(c) ==
    /\ waiting[c].pc = "idle"
    /\ waitsStarted < MaxWaits
    /\ ~(clock - lastCall < intervalMs)
    /\ lastCall' = clock
    /\ completed' = Append(completed, clock)
    /\ UNCHANGED <<clock, intervalMs, waiting, exceptLimiter>>

\* lines 11-16 of wait(): the timer is set for the rest of the interval
WaitSleeps(c) ==
    /\ waiting[c].pc = "idle"
    /\ waitsStarted < MaxWaits
    /\ clock - lastCall < intervalMs
    /\ LET timeSinceLastCall == clock - lastCall
           waitTimeLeft == intervalMs - timeSinceLastCall
       IN  waiting' = [waiting EXCEPT ![c] = [pc |-> "timer", due |-> clock + waitTimeLeft]]
    /\ UNCHANGED <<clock, intervalMs, lastCall, completed, exceptLimiter>>

\* the timer has fired: line 19 of wait()
WaitResumes(c) ==
    /\ waiting[c].pc = "timer"
    /\ clock >= waiting[c].due
    /\ lastCall' = clock
    /\ completed' = Append(completed, clock)
    /\ waiting' = [waiting EXCEPT ![c] = NotWaiting]
    /\ UNCHANGED <<clock, intervalMs, exceptLimiter>>

NextLimiter ==
    \/ Tick
    \/ \E c \in Callers : WaitPasses(c)
    \/ \E c \in Callers : WaitSleeps(c)
    \/ \E c \in Callers : WaitResumes(c)

SpecLimiter == InitLimiter /\ [][NextLimiter]_vars

\* C21: any two wait() calls on the same RateLimiter complete at instants at
\* least intervalMs apart, for every interleaving of callers, two wait() calls
\* pending at the same time included.
WaitsCompleteIntervalApart ==
    \A i, j \in 1..Len(completed) :
        i < j => completed[j] - completed[i] >= intervalMs

(***************************************************************************)
(* SpecSustain: PerformanceAnalyzer.calculateSustainability on a record    *)
(* and the asset's history.  The three sub-scores are kept in thousandths, *)
(* as the consistency is.                                                  *)
(***************************************************************************)
\* q.slice(-n)
sliceLast(q, n) == IF Len(q) <= n THEN q ELSE SubSeq(q, Len(q) - n + 1, Len(q))

\* the loop of calculateVolatility: the returns over the positive prices
RECURSIVE returnsFrom(_, _)
returnsFrom(prices, i) ==
    IF i > Len(prices) THEN <<>>
    ELSE (IF JsGt(prices[i - 1], Num(0))
          THEN <<JsDiv(JsSub(prices[i], prices[i - 1]), prices[i - 1])>>
          ELSE <<>>) \o returnsFrom(prices, i + 1)

\* PerformanceAnalyzer.calculateVolatility, in tenths of a percent rounded up
calculateVolatility(prices) ==
    IF Len(prices) < 2 THEN 0
    ELSE LET returns == returnsFrom(prices, 2)
         IN  IF Len(returns) = 0 THEN 0 ELSE sqrtMilliUp(varianceOf(returns))

\* historical.slice(-7).map(h => h.<field> || 0) followed by push(current.<field> || 0)
recentVolumes(cur, hist) ==
    [i \in 1..Len(sliceLast(hist, 7)) |-> JsOr(sliceLast(hist, 7)[i].volume24h, Num(0))]
        \o <<JsOr(cur.volume24h, Num(0))>>
recentLiquidities(cur, hist) ==
    [i \in 1..Len(sliceLast(hist, 7)) |-> JsOr(sliceLast(hist, 7)[i].liquidity, Num(0))]
        \o <<JsOr(cur.liquidity, Num(0))>>
recentPrices(cur, hist) ==
    [i \in 1..Len(sliceLast(hist, 7)) |-> JsOr(sliceLast(hist, 7)[i].price, Num(0))]
        \o <<JsOr(cur.price, Num(0))>>

\* PerformanceAnalyzer.calculateVolumeConsistency(current, historical)
analyzerVolumeConsistency(cur, hist) == calculateConsistency(recentVolumes(cur, hist))

calculateLiquidityStability(cur, hist) == calculateConsistency(recentLiquidities(cur, hist))

\* Math.max(0, 1 - volatility / 100)
calculatePriceStability(cur, hist) == Max(0, 1000 - calculateVolatility(recentPrices(cur, hist)))

\* avgScore > 0.7 is sum / 3 > 0.7, avgScore < 0.3 is sum / 3 < 0.3
calculateSustainability(cur, hist) ==
    IF Len(hist) < 3
    THEN [score |-> 500, factors |-> <<"insufficient_data">>, overall |-> "unknown"]
    ELSE LET vc  == analyzerVolumeConsistency(cur, hist)
             ls  == calculateLiquidityStability(cur, hist)
             ps  == calculatePriceStability(cur, hist)
             sum == vc + ls + ps
         IN  [volumeConsistency  |-> vc,
              liquidityStability |-> ls,
              priceStability     |-> ps,
              overall |-> IF sum > 2100 THEN "high"
                          ELSE IF sum < 900 THEN "low"
                          ELSE "moderate"]

HistoryPoints ==
    {[BaseToken EXCEPT !.volume24h = v, !.liquidity = l, !.price = p] :
        v \in Opt({0, 2}), l \in {Num(0), Num(2)}, p \in {Num(1), Num(2)}}

InitSustain ==
    /\ latest \in HistoryPoints
    /\ historical \in SeqsUpTo(HistoryPoints, MaxHist)
    /\ sustainability = <<>>
    /\ IdleExceptSustain

\* analyzeTrends hands the record and its history to calculateSustainability
CalculateSustainability ==
    /\ sustainability = <<>>
    /\ sustainability' = <<calculateSustainability(latest, historical)>>
    /\ UNCHANGED <<latest, historical, exceptSustain>>

NextSustain == CalculateSustainability

SpecSustain == InitSustain /\ [][NextSustain]_vars

\* C22: with fewer than 3 historical points calculateSustainability reports
\* overall unknown and score 0.5; with 3 or more, each of the three sub-scores
\* lies in [0,1] and overall is high iff their average is > 0.7, low iff it is
\* < 0.3, moderate otherwise.
SustainabilityAveragesUnitScores ==
    sustainability # <<>> =>
        LET s == sustainability[1]
        IN  /\ Len(historical) < 3 => (s.overall = "unknown" /\ s.score = 500)
            /\ Len(historical) >= 3 =>
                  LET sum == s.volumeConsistency + s.liquidityStability + s.priceStability
                  IN  /\ s.volumeConsistency \in 0..1000
                      /\ s.liquidityStability \in 0..1000
                      /\ s.priceStability \in 0..1000
                      /\ s.overall = "high" <=> sum > 2100
                      /\ s.overall = "low" <=> sum < 900
                      /\ s.overall = "moderate" <=> (sum <= 2100 /\ sum >= 900)

(***************************************************************************)
(* SpecPortfolio: PortfolioTracker (helpers.js) on portfolio.json.  The    *)
(* calls are made one after the other, as the CLI and the daily cycle make *)
(* them.  The file is <<>> while missing; an entry keeps its address and   *)
(* its reason, and an entry added for a token without address has none     *)
(* after JSON.stringify either.                                            *)
(***************************************************************************)
\* loadJsonFile(portfolioFile, {watchlist: [], holdings: []})
loadWatchlist(file) ==
    IF file = <<>> THEN [watchlist |-> <<>>, holdings |-> <<>>] ELSE file[1]

\* saveJsonFile(portfolioFile, portfolio)
saveWatchlist(portfolio) == <<portfolio>>

\* portfolio.watchlist.find(item => item.address === tokenAddress)
watched(watchlist, tokenAddress) ==
    \E i \in 1..Len(watchlist) : watchlist[i].address = tokenAddress

\* addToWatchlist without the look-up of an existing entry
addToWatchlist_noLookup(file, tokenAddress, reason) ==
    LET portfolio == loadWatchlist(file)
    IN  [file |-> saveWatchlist([portfolio EXCEPT !.watchlist =
                      Append(@, [address |-> tokenAddress, reason |-> reason])]),
         returned |-> TRUE]

\* addToWatchlist: the file it leaves and the boolean it resolves with
addToWatchlist(file, tokenAddress, reason) ==
    LET portfolio == loadWatchlist(file)
    IN  IF watched(portfolio.watchlist, tokenAddress)
        THEN [file |-> file, returned |-> FALSE]
        ELSE [file |-> saveWatchlist([portfolio EXCEPT !.watchlist =
                          Append(@, [address |-> tokenAddress, reason |-> reason])]),
              returned |-> TRUE]

\* portfolio.watchlist.filter(item => item.address !== tokenAddress)
RECURSIVE withoutAddress(_, _)
withoutAddress(watchlist, tokenAddress) ==
    IF watchlist = <<>> THEN <<>>
    ELSE (IF Head(watchlist).address # tokenAddress THEN <<Head(watchlist)>> ELSE <<>>)
         \o withoutAddress(Tail(watchlist), tokenAddress)

removeFromWatchlist(file, tokenAddress) ==
    LET portfolio == loadWatchlist(file)
        filtered  == withoutAddress(portfolio.watchlist, tokenAddress)
    IN  IF Len(filtered) < Len(portfolio.watchlist)
        THEN [file |-> saveWatchlist([portfolio EXCEPT !.watchlist = filtered]),
              returned |-> TRUE]
        ELSE [file |-> file, returned |-> FALSE]

\* the auto-add criteria
isPromising(token) ==
    /\ \/ JsGt(token.priceChange24h, Num(100))
       \/ (JsGt(token.priceChange24h, Num(50)) /\ JsGt(token.volume24h, Num(100000)))
    /\ JsGt(token.marketCap, Num(50000))
    /\ JsLt(token.marketCap, Num(10000000))
    /\ JsGt(token.liquidity, Num(10000))

RECURSIVE filterPromising(_)
filterPromising(toks) ==
    IF toks = <<>> THEN <<>>
    ELSE (IF isPromising(Head(toks)) THEN <<Head(toks)>> ELSE <<>>)
         \o filterPromising(Tail(toks))

\* for (const token of promising) await this.addToWatchlist(token.address, ...)
RECURSIVE addAll(_, _)
addAll(file, promising) ==
    IF promising = <<>> THEN file
    ELSE addAll(addToWatchlist(file, Head(promising).address, "auto").file, Tail(promising))

\* autoAddPromisingTokens: the file it leaves and the number it resolves with
autoAddPromisingTokens(file, toks) ==
    LET promising == filterPromising(toks)
    IN  [file |-> addAll(file, promising), returned |-> Len(promising)]

\* the addresses the CLI is given; "" is a token without address
WatchAddresses == {"A", "B", ""}

\* the tokens of a daily cycle, as deduplicateTokens leaves them
PortfolioTokens ==
    {[BaseToken EXCEPT !.address = a, !.symbol = "S", !.priceChange24h = ch,
                       !.volume24h = Num(200000), !.marketCap = Num(100000),
                       !.liquidity = liq] :
        a \in WatchAddresses, ch \in Opt({60, 120}), liq \in {Num(5000), Num(20000)}}
    \cup {[BaseToken EXCEPT !.address = "", !.symbol = "T", !.priceChange24h = Num(120),
                            !.volume24h = Undef, !.marketCap = Num(100000),
                            !.liquidity = Num(20000)]}

PortfolioBatches == {deduplicateTokens(raw) : raw \in SeqsUpTo(PortfolioTokens, MaxAuto)}

NotInvoked == [op |-> "none", address |-> "", returned |-> FALSE, count |-> 0, before |-> <<>>]

\* new PortfolioTracker(config) with no portfolio.json yet
InitPortfolio ==
    /\ portfolioFile = <<>>
    /\ invoked = NotInvoked
    /\ IdleExceptPortfolio

AddToWatchlist ==
    /\ \E tokenAddress \in WatchAddresses :
          LET r == addToWatchlist(portfolioFile, tokenAddress, "manual")
          IN  /\ portfolioFile' = r.file
              /\ invoked' = [NotInvoked EXCEPT !.op = "add", !.address = tokenAddress,
                                               !.returned = r.returned,
                                               !.before = loadWatchlist(portfolioFile).watchlist]
    /\ UNCHANGED exceptPortfolio

RemoveFromWatchlist ==
    /\ \E tokenAddress \in WatchAddresses :
          LET r == removeFromWatchlist(portfolioFile, tokenAddress)
          IN  /\ portfolioFile' = r.file
              /\ invoked' = [NotInvoked EXCEPT !.op = "remove", !.address = tokenAddress,
                                               !.returned = r.returned,
                                               !.before = loadWatchlist(portfolioFile).watchlist]
    /\ UNCHANGED exceptPortfolio

\* runDailyAnalysis: autoAdded = await this.portfolio.autoAddPromisingTokens(tokens)
AutoAddPromisingTokens ==
    /\ \E toks \in PortfolioBatches :
          LET r == autoAddPromisingTokens(portfolioFile, toks)
          IN  /\ portfolioFile' = r.file
              /\ invoked' = [NotInvoked EXCEPT !.op = "autoAdd", !.count = r.returned,
                                               !.before = loadWatchlist(portfolioFile).watchlist]
    /\ UNCHANGED exceptPortfolio

NextPortfolio == AddToWatchlist \/ RemoveFromWatchlist \/ AutoAddPromisingTokens

SpecPortfolio == InitPortfolio /\ [][NextPortfolio]_vars

\* the watchlist portfolio.json holds
Watchlist == loadWatchlist(portfolioFile).watchlist

AutoAddedCountsAdditions ==
    invoked.op = "autoAdd" => invoked.count = Len(Watchlist) - Len(invoked.before)

====
